---- MODULE Spec2Model ----
(***************************************************************************)
(* SAT forum responder: the webhook gateway, the bounded processing queue, *)
(* the background workers, the classification pipeline of ForumProcessor   *)
(* and the webhooks table (the correlation ledger).                        *)
(*                                                                         *)
(* The specifications share the definitions below.                         *)
(*   Spec     the whole server: gateway threads, queue, workers, ledger.   *)
(*   FairSpec Spec with workers that keep running.                         *)
(*   SpecGate Spec with the latest request kept in lastRequest.            *)
(*   SpecRun  one accepted job taken through a worker, with the complete   *)
(*            record of what process_webhook_background did for it kept    *)
(*            in lastRun (every collaborator answer is enumerated).        *)
(*   SpecPair two accepted jobs taken through the workers, with the list   *)
(*            of the finished runs kept in lastRun.                        *)
(*   SpecScan the image scan of one job's forum data.                      *)
(*   SpecCall one LLM invocation (ClaudeClient.call_agent) by its runner.  *)
(*   SpecPost one call of ForumPostClient.post_response.                   *)
(*   SpecCaches two accepted jobs, each scanned by the processor that      *)
(*            process_webhook_background constructs for it.                *)
(*   SpecGuard the URL check of one job's forum data.                      *)
(*   SpecUpsert the upserts of the workers into the record store.          *)
(*   SpecStats the workers' increments of the shared counters.             *)
(***************************************************************************)
EXTENDS Integers, Sequences, FiniteSets, TLC

\* ------------------------------------------------------------------ bounds
\* config.MAX_QUEUE_SIZE (100 in config.py:79), scaled down.
MAX_QUEUE_SIZE == 2
\* config.MAX_WORKERS (4 in config.py:53), scaled down.
MAX_WORKERS == 2
\* Number of requests the gateway receives in one behaviour.
MaxRequests == 3
\* Number of inline images in one scanned text field.
MaxOccurrences == 2
\* Number of URLs in the post body and in the parent post's query.
MaxBodyUrls == 2
MaxParentUrls == 1
\* Number of upserts the workers make in one behaviour.
MaxUpserts == 3
\* Number of jobs the workers count in one behaviour.
MaxJobs == 3

CorrIds == {"c1", "c2"}
Workers == 1..MAX_WORKERS
ReqIds == 1..MaxRequests

\* Python's None / SQL NULL.
None == "None"
\* No invocation is in progress.
NoCall == <<>>
\* No URL check, record store or counters in the specifications without them.
NoGuard == <<>>
NoStore == <<>>
NoStats == <<>>

VARIABLES
    processing_queue,  \* Queue(maxsize): sequence of items (forum_data, correlation_id)
    webhooks,          \* rows of the webhooks table
    next_rowid,        \* AUTOINCREMENT counter of the webhooks table
    worker,            \* per background_worker thread: where it is and the item it holds
    response,          \* the answer the gateway gave to the latest request
    received,          \* number of requests handled so far (names the requests)
    accepted,          \* requests answered 202
    dequeues,          \* per request: how often its item was taken from the queue
    updates,           \* per request: terminal ledger updates made by a worker for it
    lastRun,           \* SpecRun: the record of the latest finished run; SpecPair: the runs finished so far
    lastRequest,       \* SpecGate only: the request the gateway handled last
    call,              \* SpecCall: the LLM invocation in progress; SpecPost: the forum post in progress
    guard,             \* SpecGuard: the URL check of one job's forum data
    airtable,          \* SpecUpsert: the records of the record store and the upserts in progress
    stats,             \* SpecStats: the counters of webhook_receiver.stats and what each worker read of them
    scan               \* SpecScan: the image scan of one job's forum data; SpecCaches: per worker, the scan of the processor its job constructed

vars == <<processing_queue, webhooks, next_rowid, worker, response, received,
          accepted, dequeues, updates, lastRun, lastRequest, call, guard, airtable,
          stats, scan>>

\* ------------------------------------------------ collaborator answers
\* What the collaborators answer while one job is processed.  A field that the
\* run never consults keeps its first listed value (see Consulted below), so
\* that each distinguishable run is enumerated once.
A1Answers == {"fail", "SM_Doubt", "Gratitude"}
A2Answers == {"fail", "Genuine_Doubt", "Pointing_Out_Corrections",
              "Variation_of_Question", "Alternate_Approach", "Unknown_Class"}
ToolAnswers == {"fail", "nojson", "ok"}
\* Shape of the responder's parsed output: where the reply text is (see
\* ParsedResponse).
Shapes == {"text", "html", "empty", "content", "parts", "no_parts", "Response"}
\* Exception/escalation flag set by the responder output.
Flags == {"none", "Exception_Flag", "exception_flag", "hil_escalation"}
\* validation_result.classification of the responder output.
Verdicts == {"absent", "INVALID", "invalid", "VALID"}
TeamsAnswers == {"ok", "fail", "raise"}


\* ------------------------------------------------------- ForumProcessor
Routed == {"Genuine_Doubt", "Pointing_Out_Corrections",
           "Variation_of_Question", "Alternate_Approach"}

tool_mapping_WithDefault(a2_classification) ==
    CASE a2_classification = "Pointing_Out_Corrections" -> "tool_4"
      [] a2_classification = "Variation_of_Question" -> "tool_5"
      [] a2_classification = "Alternate_Approach" -> "tool_6"
      [] OTHER -> "tool_3"

\* tool_mapping of process_forum_post.
tool_mapping(a2_classification) ==
    CASE a2_classification = "Genuine_Doubt" -> "tool_3"
      [] a2_classification = "Pointing_Out_Corrections" -> "tool_4"
      [] a2_classification = "Variation_of_Question" -> "tool_5"
      [] a2_classification = "Alternate_Approach" -> "tool_6"
      [] OTHER -> None

\* The results dictionary process_forum_post starts from.  calls is the
\* ordered log of the collaborator calls made for the job (it is not a field
\* of the Python dictionary; it records the calls the code makes).
NewResults(forum_data) ==
    [correlation_id |-> forum_data.correlationId,
     image_processing_stats |-> None,
     a1_result |-> None,
     a2_result |-> None,
     tool_result |-> None,
     tool_flag |-> None,
     tool_verdict |-> None,
     final_response |-> None,
     final_response_html |-> None,
     hil_flag |-> FALSE,
     processing_status |-> "pending",
     tool_outputs |-> <<>>,
     url_check |-> FALSE,
     calls |-> <<>>]

Call(r, name) == [r EXCEPT !.calls = Append(@, name)]

ToolOutput_Prepended(r, name, sequence) ==
    [r EXCEPT !.tool_outputs = <<[tool_name |-> name, tool_sequence |-> sequence]>> \o @]

\* The entry a runner builds for its result, appended by process_forum_post
\* when the runner returned one.
ToolOutput(r, name, sequence) ==
    [r EXCEPT !.tool_outputs = Append(@, [tool_name |-> name, tool_sequence |-> sequence])]

\* prompt_key.upper() / tool_key.upper(), and the formatter's fixed name.
ToolName(prompt_key) ==
    CASE prompt_key = "a1_triage" -> "A1_TRIAGE"
      [] prompt_key = "a2_deep_sm" -> "A2_DEEP_SM"
      [] prompt_key = "tool_3" -> "TOOL_3"
      [] prompt_key = "tool_4" -> "TOOL_4"
      [] prompt_key = "tool_5" -> "TOOL_5"
      [] prompt_key = "tool_6" -> "TOOL_6"
      [] OTHER -> "RESPONSE_FORMATTER"

Failed_StatusKept(r) == r

\* The handler of lines 469-472 and the early "error" returns.
Failed(r) == [r EXCEPT !.processing_status = "error"]

HilFlagSet_CapitalOnly(flag) == flag = "Exception_Flag"

\* Lines 447-454: the flags that make hil_flag true.
HilFlagSet(flag) == flag \in {"Exception_Flag", "exception_flag", "hil_escalation"}

HilCheck_StatusCompleted(r, env) ==
    IF HilFlagSet(env.flag)
    THEN [r EXCEPT !.hil_flag = TRUE, !.processing_status = "completed"]
    ELSE [r EXCEPT !.processing_status = "completed"]

\* Lines 447-467.  The check runs after the formatting step.
HilCheck(r, env) ==
    IF HilFlagSet(env.flag)
    THEN [r EXCEPT !.hil_flag = TRUE, !.processing_status = "hil_exception"]
    ELSE [r EXCEPT !.processing_status = "completed"]

\* _format_to_html: None when the call fails or the reply holds no response_html.
FormatToHtml(r, env) ==
    IF env.fmtOk
    THEN ToolOutput([Call(r, "tool_7") EXCEPT !.final_response_html = "formatted html"],
                    "RESPONSE_FORMATTER", 4)
    ELSE [Call(r, "tool_7") EXCEPT !.final_response_html = r.final_response]

FormatStage_HtmlFormattedAgain(r, env) ==
    IF r.final_response # ""
    THEN FormatToHtml(r, env)
    ELSE [r EXCEPT !.final_response_html = ""]

\* Lines 434-445: step 4, skipped when the responder already gave HTML.
FormatStage(r, env) ==
    IF r.final_response # "" /\ r.final_response_html = None
    THEN FormatToHtml(r, env)
    ELSE IF r.final_response = ""
         THEN [r EXCEPT !.final_response_html = ""]
         ELSE r

\* A Python value that is truthy as a string.
Truthy(v) == v \notin {None, ""}

\* dict.get(key, default).
Get(d, key, default) == IF key \in DOMAIN d THEN d[key] ELSE default

\* The parsed responder output of each shape.  The value under "response" is
\* an object (held here as response_obj) or a string (held as response).
ParsedResponse(shape) ==
    CASE shape = "text" -> [response |-> "plain text"]
      [] shape = "Response" -> [Response |-> "Capital text", response |-> "plain text"]
      [] shape = "html" ->
            [response_html |-> "<html>", Response |-> "Capital text", response |-> "plain text"]
      [] shape = "content" ->
            [response_obj |-> [content |-> "content text", main_response |-> "main"],
             response_html |-> "<html>", Response |-> "Capital text"]
      [] shape = "parts" ->
            [response_obj |-> [content |-> "", closing |-> "bye", worked_solution |-> "steps",
                               comparison_to_official |-> "", greeting |-> "hello"],
             response_html |-> "<html>"]
      [] shape = "no_parts" ->
            [response_obj |-> [note |-> "n"], response_html |-> "<html>"]
      [] OTHER -> [Exception_Reason |-> ""]

\* Line 423: the keys of the reply parts, in the order they are joined.
PartKeys == <<"greeting", "main_response", "worked_solution",
              "comparison_to_official", "closing">>

\* "\n\n".join(response_parts).
RECURSIVE Join(_)
Join(parts) ==
    IF parts = <<>> THEN ""
    ELSE IF Len(parts) = 1 THEN parts[1]
    ELSE parts[1] \o "\n\n" \o Join(Tail(parts))

\* Lines 422-425: the parts that are present and not empty.
RECURSIVE ResponseParts(_, _)
ResponseParts(response_obj, keys) ==
    IF keys = <<>> THEN <<>>
    ELSE IF Truthy(Get(response_obj, Head(keys), ""))
         THEN <<response_obj[Head(keys)]>> \o ResponseParts(response_obj, Tail(keys))
         ELSE ResponseParts(response_obj, Tail(keys))

ExtractResponse_HtmlFirst(r, env) ==
    LET parsed_response == ParsedResponse(env.shape) IN
    IF Truthy(Get(parsed_response, "response_html", ""))
    THEN [r EXCEPT !.final_response = parsed_response.response_html,
                   !.final_response_html = parsed_response.response_html]
    ELSE IF "response_obj" \in DOMAIN parsed_response
         THEN IF Truthy(Get(parsed_response.response_obj, "content", ""))
              THEN [r EXCEPT !.final_response = parsed_response.response_obj.content]
              ELSE [r EXCEPT !.final_response =
                                 Join(ResponseParts(parsed_response.response_obj, PartKeys))]
         ELSE [r EXCEPT !.final_response =
                            Get(parsed_response, "Response",
                                Get(parsed_response, "response", ""))]

\* Lines 412-432: the reply text taken from the parsed responder output.
ExtractResponse(r, env) ==
    LET parsed_response == ParsedResponse(env.shape) IN
    IF "response_obj" \in DOMAIN parsed_response
    THEN IF Truthy(Get(parsed_response.response_obj, "content", ""))
         THEN [r EXCEPT !.final_response = parsed_response.response_obj.content]
         ELSE [r EXCEPT !.final_response =
                            Join(ResponseParts(parsed_response.response_obj, PartKeys))]
    ELSE IF Truthy(Get(parsed_response, "response_html", ""))
         THEN [r EXCEPT !.final_response = parsed_response.response_html,
                        !.final_response_html = parsed_response.response_html]
         ELSE [r EXCEPT !.final_response =
                            Get(parsed_response, "Response",
                                Get(parsed_response, "response", ""))]

ToolStage_HilBeforeFormat(r, tool_key, env) ==
    LET called == Call(r, tool_key) IN
    IF env.tool = "fail" THEN Failed(called)
    ELSE LET got == ToolOutput([called EXCEPT !.tool_result =
                                    IF env.tool = "ok" THEN "parsed" ELSE "unparsed"],
                               ToolName(tool_key), 3)
             extracted == ExtractResponse(
                              [got EXCEPT !.tool_flag = env.flag, !.tool_verdict = env.verdict],
                              env)
         IN  IF env.tool = "nojson"
             THEN Failed(got)
             ELSE IF HilFlagSet(env.flag)
                  THEN HilCheck(extracted, env)
                  ELSE HilCheck(FormatStage(extracted, env), env)

\* Lines 402-467: the specialized tool and what follows it.
ToolStage(r, tool_key, env) ==
    LET called == Call(r, tool_key) IN
    IF env.tool = "fail" THEN Failed(called)
    ELSE LET got == ToolOutput([called EXCEPT !.tool_result =
                                    IF env.tool = "ok" THEN "parsed" ELSE "unparsed"],
                               ToolName(tool_key), 3)
         IN  IF env.tool = "nojson"
             THEN Failed(got)   \* parsed is None: line 415 raises, caught at 469
             ELSE HilCheck(FormatStage(ExtractResponse(
                      [got EXCEPT !.tool_flag = env.flag, !.tool_verdict = env.verdict],
                      env), env), env)

\* Lines 376-400: the deep classifier and the routing table.
A2Stage(r, env) ==
    LET called == Call(r, "a2_deep_sm") IN
    IF env.a2 = "fail" THEN Failed(called)
    ELSE LET got == ToolOutput([called EXCEPT !.a2_result = env.a2], ToolName("a2_deep_sm"), 2)
         IN  IF tool_mapping(env.a2) = None
             THEN Failed(got)
             ELSE ToolStage(got, tool_mapping(env.a2), env)

A1Stage_FailureIgnored(r, env) ==
    LET called == Call(r, "a1_triage") IN
    IF env.a1 = "fail" THEN A2Stage(called, env)
    ELSE LET got == ToolOutput([called EXCEPT !.a1_result = env.a1], ToolName("a1_triage"), 1)
         IN  IF env.a1 # "SM_Doubt"
             THEN [got EXCEPT !.hil_flag = TRUE, !.processing_status = "hil_exception"]
             ELSE A2Stage(got, env)

A1Stage_NoHilRoute(r, env) ==
    LET called == Call(r, "a1_triage") IN
    IF env.a1 = "fail" THEN Failed(called)
    ELSE A2Stage(ToolOutput([called EXCEPT !.a1_result = env.a1], ToolName("a1_triage"), 1), env)

\* Lines 357-374: the triage classifier.
A1Stage(r, env) ==
    LET called == Call(r, "a1_triage") IN
    IF env.a1 = "fail" THEN Failed(called)
    ELSE LET got == ToolOutput([called EXCEPT !.a1_result = env.a1], ToolName("a1_triage"), 1)
         IN  IF env.a1 # "SM_Doubt"
             THEN [got EXCEPT !.hil_flag = TRUE, !.processing_status = "hil_exception"]
             ELSE A2Stage(got, env)

process_forum_post_GuardIgnored(forum_data, env) ==
    LET r0 == Call(NewResults(forum_data), "url_guard") IN
    IF env.guardFault THEN Failed(r0)
    ELSE LET r2 == Call([r0 EXCEPT !.url_check = forum_data.hasUrl], "image_scan") IN
         IF env.scanFault THEN Failed(r2)
         ELSE A1Stage([r2 EXCEPT !.image_processing_stats = "stats"], env)

\* ForumProcessor.process_forum_post.
process_forum_post(forum_data, env) ==
    LET r0 == Call(NewResults(forum_data), "url_guard") IN
    IF env.guardFault THEN Failed(r0)
    ELSE LET r1 == [r0 EXCEPT !.url_check = forum_data.hasUrl] IN
         IF r1.url_check
         THEN [r1 EXCEPT !.processing_status = "url_detected"]
         ELSE LET r2 == Call(r1, "image_scan") IN
              IF env.scanFault THEN Failed(r2)
              ELSE A1Stage([r2 EXCEPT !.image_processing_stats = "stats"], env)

\* Lines 50-61 of __init__: the forum-post and Teams clients exist when their
\* URLs are configured; the deployment modelled here configures both.
forum_post_client == TRUE
teams_client == TRUE

\* str.upper() on validation_result.classification ("" when the key is absent).
Upper(verdict) ==
    CASE verdict = "invalid" -> "INVALID"
      [] verdict \in {"absent", None} -> ""
      [] OTHER -> verdict

should_post_to_forum_AnyStatus(results) ==
    IF results.a2_result = None THEN FALSE
    ELSE IF results.a2_result = "Pointing_Out_Corrections"
         THEN Upper(results.tool_verdict) = "INVALID"
         ELSE TRUE

\* ForumProcessor._should_post_to_forum.
should_post_to_forum(results) ==
    IF results.processing_status # "completed" THEN FALSE
    ELSE IF results.a2_result = None THEN FALSE
    ELSE IF results.a2_result = "Pointing_Out_Corrections"
         THEN Upper(results.tool_verdict) = "INVALID"
         ELSE TRUE

\* save_status as save_results creates it; calls continues the job's call log.
NewSaveStatus(results) ==
    [airtable_saved |-> FALSE,
     forum_post_status |-> None,
     forum_post_error |-> None,
     teams_notified |-> FALSE,
     html_was_cleaned |-> FALSE,
     calls |-> results.calls]

\* Lines 528-542 and 616-635: the Teams notification, failures swallowed.
SendTeams(s, env) ==
    IF teams_client
    THEN [Call(s, "teams") EXCEPT !.teams_notified = (env.teams = "ok")]
    ELSE s

\* Line 578-583: the record-store upsert.
Upsert(s, env) == [Call(s, "airtable") EXCEPT !.airtable_saved = env.upsertOk]

PostStep_NoSkippedStatus(s, results, env) ==
    LET should_post == should_post_to_forum(results) IN
    IF should_post /\ Truthy(results.final_response_html) /\ forum_post_client
    THEN IF env.postOk
         THEN [Call(s, "forum_post") EXCEPT !.forum_post_status = "posted"]
         ELSE [Call(s, "forum_post") EXCEPT !.forum_post_status = "failed",
                                              !.forum_post_error = "post error"]
    ELSE IF results.processing_status = "hil_exception"
         THEN [s EXCEPT !.forum_post_status = "skipped_hil"]
         ELSE IF ~should_post /\ results.processing_status = "completed"
              THEN [s EXCEPT !.forum_post_status = "skipped_validation"]
              ELSE s

PostStep_EmptyHtmlPosted(s, results, env) ==
    LET should_post == should_post_to_forum(results) IN
    IF should_post /\ forum_post_client
    THEN IF env.postOk
         THEN [Call(s, "forum_post") EXCEPT !.forum_post_status = "posted"]
         ELSE [Call(s, "forum_post") EXCEPT !.forum_post_status = "failed",
                                              !.forum_post_error = "post error"]
    ELSE IF results.processing_status = "hil_exception"
         THEN [s EXCEPT !.forum_post_status = "skipped_hil"]
         ELSE IF ~should_post /\ results.processing_status = "completed"
              THEN [s EXCEPT !.forum_post_status = "skipped_validation"]
              ELSE [s EXCEPT !.forum_post_status = "skipped"]

\* Lines 585-613: the forum post, or the reason it is skipped.
PostStep(s, results, env) ==
    LET should_post == should_post_to_forum(results) IN
    IF should_post /\ Truthy(results.final_response_html) /\ forum_post_client
    THEN IF env.postOk
         THEN [Call(s, "forum_post") EXCEPT !.forum_post_status = "posted"]
         ELSE [Call(s, "forum_post") EXCEPT !.forum_post_status = "failed",
                                              !.forum_post_error = "post error"]
    ELSE IF results.processing_status = "hil_exception"
         THEN [s EXCEPT !.forum_post_status = "skipped_hil"]
         ELSE IF ~should_post /\ results.processing_status = "completed"
              THEN [s EXCEPT !.forum_post_status = "skipped_validation"]
              ELSE [s EXCEPT !.forum_post_status = "skipped"]

save_results_NotifyFirst(results, env) ==
    LET s0 == NewSaveStatus(results) IN
    IF results.image_processing_stats = None
    THEN s0
    ELSE IF results.processing_status = "error"
         THEN SendTeams(s0, env)
         ELSE PostStep(Upsert(SendTeams(s0, env), env), results, env)

save_results_UpsertFailureAborts(results, env) ==
    LET s0 == NewSaveStatus(results) IN
    IF results.image_processing_stats = None
    THEN s0
    ELSE IF results.processing_status = "error"
         THEN SendTeams(s0, env)
         ELSE IF env.upsertOk
              THEN SendTeams(PostStep(Upsert(s0, env), results, env), env)
              ELSE Upsert(s0, env)

\* ForumProcessor.save_results.
save_results(results, env) ==
    LET s0 == NewSaveStatus(results) IN
    IF results.image_processing_stats = None
    THEN s0     \* line 524: None.get raises; caught at line 637
    ELSE IF results.processing_status = "error"
         THEN SendTeams(s0, env)
         ELSE SendTeams(PostStep(Upsert(s0, env), results, env), env)

\* ------------------------------------------------------ webhooks table
NewRow(rowid, correlation_id) ==
    [id |-> rowid,
     correlation_id |-> correlation_id,
     status |-> "pending",
     error_message |-> None,
     forum_post_status |-> None]

save_webhook_received_Insert(table, rowid, correlation_id) ==
    table \cup {NewRow(rowid, correlation_id)}

\* save_webhook_received: INSERT OR REPLACE on the UNIQUE correlation_id.
save_webhook_received(table, rowid, correlation_id) ==
    {row \in table : row.correlation_id # correlation_id}
        \cup {NewRow(rowid, correlation_id)}

update_webhook_status_OnlyPending(table, correlation_id, status, kwargs) ==
    {IF row.correlation_id = correlation_id /\ row.status = "pending"
     THEN [col \in DOMAIN row |->
              IF col = "status" THEN status
              ELSE IF col \in DOMAIN kwargs THEN kwargs[col]
              ELSE row[col]]
     ELSE row : row \in table}

\* update_webhook_status: UPDATE ... SET status = ?, <kwargs> WHERE correlation_id = ?
update_webhook_status(table, correlation_id, status, kwargs) ==
    {IF row.correlation_id = correlation_id
     THEN [col \in DOMAIN row |->
              IF col = "status" THEN status
              ELSE IF col \in DOMAIN kwargs THEN kwargs[col]
              ELSE row[col]]
     ELSE row : row \in table}

\* ------------------------------------------- process_webhook_background
\* Line 273: results.get('image_processing_stats', {}).get(...) raises when the
\* key holds None.
StatsLineRaises(results) == results.image_processing_stats = None

FaultUpdate_None(message) == <<>>
FaultUpdate_NoMessage(message) == <<[status |-> "error", kwargs |-> <<>>]>>

\* Line 308: the update made by the handler of line 304.
FaultUpdate(message) ==
    <<[status |-> "error", kwargs |-> [error_message |-> message]]>>

\* Lines 290-300: the update made after save_results.
FinalUpdate(results, save_status) ==
    <<[status |-> results.processing_status,
       kwargs |-> [forum_post_status |-> save_status.forum_post_status]]>>

\* What process_webhook_background does for one item: the results of the
\* state machine, the save status (with the log of the calls made), the fault
\* that reached the handler of line 304, the ledger updates in order, and the
\* order of the calls and the ledger update (events).
process_webhook_background(forum_data, correlation_id, env) ==
    IF env.ctorFault
    THEN [correlation_id |-> correlation_id,
          results |-> NewResults(forum_data),
          save_status |-> NewSaveStatus(NewResults(forum_data)),
          fault |-> "ForumProcessor() raised",
          saved |-> FALSE,
          events |-> <<"ledger">>,
          ledger_updates |-> FaultUpdate("ForumProcessor() raised")]
    ELSE LET results == process_forum_post(forum_data, env) IN
         IF StatsLineRaises(results)
         THEN [correlation_id |-> correlation_id,
               results |-> results,
               save_status |-> NewSaveStatus(results),
               fault |-> "'NoneType' object has no attribute 'get'",
               saved |-> FALSE,
               events |-> Append(results.calls, "ledger"),
               ledger_updates |-> FaultUpdate("'NoneType' object has no attribute 'get'")]
         ELSE LET save_status == save_results(results, env) IN
              [correlation_id |-> correlation_id,
               results |-> results,
               save_status |-> save_status,
               fault |-> None,
               saved |-> TRUE,
               events |-> Append(save_status.calls, "ledger"),
               ledger_updates |-> FinalUpdate(results, save_status)]

\* ------------------------------------------------------ answer scripts
EnvHead == [ctorFault : BOOLEAN, guardFault : BOOLEAN, scanFault : BOOLEAN,
            a1 : A1Answers, a2 : A2Answers, tool : ToolAnswers]
EnvReply == [shape : Shapes, flag : Flags, verdict : Verdicts, fmtOk : BOOLEAN]
EnvSave == [upsertOk : BOOLEAN, postOk : BOOLEAN, teams : TeamsAnswers]

\* The pipeline comes as far as the triage call.
Started(e) == ~e.ctorFault /\ ~e.guardFault /\ ~e.scanFault
\* The responder answered with a parsed object.
Replied(e) == Started(e) /\ e.a1 = "SM_Doubt" /\ e.a2 \in Routed /\ e.tool = "ok"

\* An answer nobody asks for keeps its default: every run is listed once.
ConsultedHead(e) ==
    /\ e.guardFault => ~e.ctorFault
    /\ e.scanFault => ~e.ctorFault /\ ~e.guardFault
    /\ e.a1 # "fail" => Started(e)
    /\ e.a2 # "fail" => Started(e) /\ e.a1 = "SM_Doubt"
    /\ e.tool # "fail" => Started(e) /\ e.a1 = "SM_Doubt" /\ e.a2 \in Routed

\* What the extraction gives for a shape of responder output.
Extracted(shape) == ExtractResponse(NewResults([correlationId |-> None]), [shape |-> shape])

ConsultedRest(e) ==
    /\ e.shape # "text" => Replied(e)
    /\ e.flag # "none" => Replied(e)
    /\ e.fmtOk => /\ Replied(e)
                  /\ Truthy(Extracted(e.shape).final_response)
                  /\ Extracted(e.shape).final_response_html = None
    /\ e.verdict # "absent" => Replied(e) /\ e.flag = "none"
    /\ e.upsertOk => Started(e) /\ (e.a1 = "Gratitude" \/ Replied(e))
    /\ e.postOk =>
          /\ Replied(e) /\ e.flag = "none" /\ Truthy(Extracted(e.shape).final_response)
          /\ e.a2 = "Pointing_Out_Corrections" => e.verdict \in {"INVALID", "invalid"}
    /\ e.teams # "ok" => Started(e)

Envs ==
    {e \in {h @@ r @@ s : h \in {x \in EnvHead : ConsultedHead(x)},
                          r \in EnvReply, s \in EnvSave} : ConsultedRest(e)}

\* --------------------------------------------------------------- gateway
\* What a request to /webhook carries, as far as receive_webhook looks at it.
\*   auth     the API-key header: missing, wrong or right
\*   body     not JSON, empty JSON, JSON that is no object, or a payload object
\*   correlationId   correlationId / Forum_Corr_ID of the payload, or None
\*   has_full_data   questionDataVO or forumPostText present
\*   fetchOk  answer of the lookup by correlation id (asked for id-only payloads)
\*   fetched_id   correlationId / Forum_Corr_ID of the record the lookup gave:
\*            the id that was asked for, or None when the record carries
\*            none (the gateway does not look at it)
\*   hasUrl   the URL guard's finding on the forum data the job will carry
Requests0 ==
    [auth : {"ok", "missing", "invalid"},
     body : {"payload", "notjson", "empty", "nondict"},
     correlationId : CorrIds \cup {None},
     has_full_data : BOOLEAN,
     fetchOk : BOOLEAN,
     fetched_id : CorrIds \cup {None},
     hasUrl : BOOLEAN]

NeedsFetch(req) == req.correlationId # None /\ ~req.has_full_data

RequestConsulted(req) ==
    /\ req.body # "payload" => req.auth = "ok"
    /\ req.correlationId # None => req.auth = "ok" /\ req.body = "payload"
    /\ req.has_full_data => req.auth = "ok" /\ req.body = "payload"
    /\ req.fetchOk => req.auth = "ok" /\ req.body = "payload" /\ NeedsFetch(req)
    /\ req.fetched_id # None => req.fetchOk /\ req.fetched_id = req.correlationId
    /\ req.hasUrl =>
          /\ req.auth = "ok" /\ req.body = "payload" /\ req.correlationId # None
          /\ req.has_full_data \/ req.fetchOk

Requests == {req \in Requests0 : RequestConsulted(req)}

Rejection_FetchFailurePasses(req) ==
    CASE req.auth = "missing" -> 401
      [] req.auth = "invalid" -> 403
      [] req.body = "notjson" -> 400
      [] req.body = "empty" -> 400
      [] req.body = "nondict" -> 500
      [] req.correlationId = None -> 400
      [] OTHER -> 0

\* require_api_key and the checks of receive_webhook up to line 389: the
\* status code of a rejection, or 0 when the request goes on to be recorded.
Rejection(req) ==
    CASE req.auth = "missing" -> 401
      [] req.auth = "invalid" -> 403
      [] req.body = "notjson" -> 400
      [] req.body = "empty" -> 400
      [] req.body = "nondict" -> 500
      [] NeedsFetch(req) /\ ~req.fetchOk -> 502
      [] req.correlationId = None -> 400
      [] OTHER -> 0

ForumData_PayloadKept(req) ==
    [correlationId |-> req.correlationId, hasUrl |-> req.hasUrl, origin |-> "payload"]

\* Lines 375-384: the forum data the job carries is the record fetched by
\* correlation id when the payload holds the id only, and the payload otherwise.
ForumData(req) ==
    [correlationId |-> IF NeedsFetch(req) THEN req.fetched_id ELSE req.correlationId,
     hasUrl |-> req.hasUrl,
     origin |-> IF NeedsFetch(req) THEN "fetched" ELSE "payload"]

QueueFull_Never(q) == FALSE

QueueFull_OneMore(q) == Len(q) > MAX_QUEUE_SIZE

\* Queue.put_nowait raises Full when qsize() >= maxsize.
QueueFull(q) == Len(q) >= MAX_QUEUE_SIZE

\* receive_webhook (with require_api_key around it), one request.
receive_webhook(req) ==
    /\ received < MaxRequests
    /\ received' = received + 1
    /\ UNCHANGED <<worker, dequeues, updates, lastRun, call, scan,
                   guard, airtable, stats>>
    /\ IF Rejection(req) # 0
       THEN /\ response' = [request |-> received + 1, status_code |-> Rejection(req)]
            /\ UNCHANGED <<processing_queue, webhooks, next_rowid, accepted>>
       ELSE LET saved == save_webhook_received(webhooks, next_rowid, req.correlationId)
                item == [request |-> received + 1,
                         forum_data |-> ForumData(req),
                         correlation_id |-> req.correlationId]
            IN  /\ next_rowid' = next_rowid + 1
                /\ IF QueueFull(processing_queue)
                   THEN /\ webhooks' = update_webhook_status(saved, req.correlationId,
                                           "rejected", [error_message |-> "Queue full"])
                        /\ response' = [request |-> received + 1, status_code |-> 503]
                        /\ UNCHANGED <<processing_queue, accepted>>
                   ELSE /\ webhooks' = saved
                        /\ processing_queue' = Append(processing_queue, item)
                        /\ response' = [request |-> received + 1, status_code |-> 202]
                        /\ accepted' = accepted \cup {received + 1}

ReceiveWebhook(req) == receive_webhook(req) /\ UNCHANGED lastRequest

\* The same step with the request kept for inspection.
ReceiveWebhookTraced(req) == receive_webhook(req) /\ lastRequest' = <<req>>

\* ---------------------------------------------------------------- workers
NoItem == <<>>

Dequeue_Peek(w) ==
    /\ worker[w] = NoItem
    /\ processing_queue # <<>>
    /\ worker' = [worker EXCEPT ![w] = <<Head(processing_queue)>>]
    /\ dequeues' = [dequeues EXCEPT ![Head(processing_queue).request] = @ + 1]
    /\ UNCHANGED <<processing_queue, webhooks, next_rowid, response, received, accepted,
                   updates, lastRun, lastRequest, call, scan,
                   guard, airtable, stats>>

Dequeue_Newest(w) ==
    /\ worker[w] = NoItem
    /\ processing_queue # <<>>
    /\ worker' = [worker EXCEPT ![w] = <<processing_queue[Len(processing_queue)]>>]
    /\ processing_queue' = SubSeq(processing_queue, 1, Len(processing_queue) - 1)
    /\ dequeues' = [dequeues EXCEPT ![processing_queue[Len(processing_queue)].request] = @ + 1]
    /\ UNCHANGED <<webhooks, next_rowid, response, received, accepted, updates,
                   lastRun, lastRequest, call, scan,
                   guard, airtable, stats>>

\* background_worker, line 317: processing_queue.get() returns the oldest item.
Dequeue(w) ==
    /\ worker[w] = NoItem
    /\ processing_queue # <<>>
    /\ worker' = [worker EXCEPT ![w] = <<Head(processing_queue)>>]
    /\ processing_queue' = Tail(processing_queue)
    /\ dequeues' = [dequeues EXCEPT ![Head(processing_queue).request] = @ + 1]
    /\ UNCHANGED <<webhooks, next_rowid, response, received, accepted, updates,
                   lastRun, lastRequest, call, scan,
                   guard, airtable, stats>>

\* The updates of one run applied to the table in order.
RECURSIVE ApplyUpdates(_, _, _)
ApplyUpdates(table, correlation_id, ledger_updates) ==
    IF ledger_updates = <<>> THEN table
    ELSE ApplyUpdates(update_webhook_status(table, correlation_id,
                                            Head(ledger_updates).status,
                                            Head(ledger_updates).kwargs),
                      correlation_id, Tail(ledger_updates))

\* The end of a run as the worker's thread sees it: the ledger updates are
\* written, then task_done() and back to processing_queue.get().
Finish(w, ledger_updates) ==
    /\ webhooks' = ApplyUpdates(webhooks, worker[w][1].correlation_id, ledger_updates)
    /\ updates' = [updates EXCEPT ![worker[w][1].request] = @ + Len(ledger_updates)]
    /\ worker' = [worker EXCEPT ![w] = NoItem]
    /\ UNCHANGED <<processing_queue, next_rowid, response, received, accepted, dequeues,
                   call, scan,
                   guard, airtable, stats>>

\* The ledger updates the runs of an item can end with: every answer script
\* applied to forum data with and without a link.
EffectsOf(hasUrl) ==
    {process_webhook_background([correlationId |-> None, hasUrl |-> hasUrl,
                                 origin |-> "payload"],
                                None, env).ledger_updates : env \in Envs}

EffectsUrl == EffectsOf(TRUE)
EffectsNoUrl == EffectsOf(FALSE)

\* background_worker, lines 322-328: one item processed to its ledger update.
ProcessJob(w) ==
    /\ worker[w] # NoItem
    /\ \E eff \in (IF worker[w][1].forum_data.hasUrl THEN EffectsUrl ELSE EffectsNoUrl) :
          Finish(w, eff)
    /\ UNCHANGED <<lastRun, lastRequest>>

\* The same step with the run kept for inspection.
ProcessJobTraced(w) ==
    /\ worker[w] # NoItem
    /\ \E env \in Envs :
          LET run == process_webhook_background(worker[w][1].forum_data,
                                                worker[w][1].correlation_id, env)
          IN  /\ Finish(w, run.ledger_updates)
              /\ lastRun' = <<[item |-> worker[w][1], env |-> env, run |-> run]>>
              /\ UNCHANGED lastRequest

\* The same step with the worker, the item and the updates it wrote added to
\* the list of finished runs.
ProcessJobLogged(w) ==
    /\ worker[w] # NoItem
    /\ \E eff \in (IF worker[w][1].forum_data.hasUrl THEN EffectsUrl ELSE EffectsNoUrl) :
          /\ Finish(w, eff)
          /\ lastRun' = Append(lastRun, [item |-> worker[w][1], worker |-> w,
                                         ledger_updates |-> eff])
    /\ UNCHANGED lastRequest

\* ------------------------------------------------------------ image scan
\* ForumContentProcessor.process_forum_data on the forum data of one job.  A
\* text field is the sequence of the inline base64 images in it, each an
\* <img> tag or a standalone data URI; the attachments are the entries of
\* base64EncodedImages.  Occurrences of one image are textually identical.
NoScan == <<>>
Images == {"imgA", "imgB"}
\* An image that a text refers to by its address.
ImageUrls == {"urlA"}
\* <img> with inline base64, <img> with an image URL, a data URI outside a
\* tag, an image link outside a tag.
Forms == {"img_tag", "img_url", "data_uri", "link"}
\* The first two of TOP_LEVEL_FIELDS that a payload can hold together.
ScanFields == <<"forumPostText", "parentPostQuery">>
\* base64EncodedImages; "" is an entry without data.
AttachmentLists == {<<>>, <<"imgA">>, <<"imgA", "imgA">>, <<"", "imgA">>}
Occurrences ==
    [image : Images, form : {"img_tag", "data_uri"}]
        \cup [image : ImageUrls, form : {"img_url", "link"}]
FieldContents == UNION {[1..n -> Occurrences] : n \in 0..MaxOccurrences}

\* ContentImageProcessor.__init__ and the state process_forum_data starts from.
NewScan(fields, attachments) ==
    [fields |-> fields,
     attachments |-> attachments,
     stage |-> "tags", field |-> 1, pos |-> 1,
     transcription_cache |-> {},
     vision_calls |-> <<>>,
     replaced |-> {},
     base64_transcriptions |-> <<>>,
     total_images |-> 0]

\* The form the pass of a stage matches: IMG_BASE64_PATTERN, IMG_URL_PATTERN,
\* BASE64_PATTERN.  No pass of process_content matches the form "link".
StageForm(stage) ==
    CASE stage = "tags" -> "img_tag"
      [] stage = "urls" -> "img_url"
      [] OTHER -> "data_uri"

\* The next match of the running finditer loop, or the next pass, field or
\* the attachment array when the loop is exhausted.
RECURSIVE Seek(_)
Seek(sc) ==
    CASE sc.stage = "done" -> sc
      [] sc.stage = "array" ->
            IF sc.pos <= Len(sc.attachments) THEN sc ELSE [sc EXCEPT !.stage = "done"]
      [] OTHER ->
            LET content == sc.fields[sc.field]
                rest == {i \in sc.pos..Len(content) : content[i].form = StageForm(sc.stage)}
            IN  IF rest # {}
                THEN [sc EXCEPT !.pos = CHOOSE i \in rest : \A j \in rest : i <= j]
                ELSE IF sc.stage = "tags"
                     THEN Seek([sc EXCEPT !.stage = "urls", !.pos = 1])
                     ELSE IF sc.stage = "urls"
                     THEN Seek([sc EXCEPT !.stage = "uris", !.pos = 1])
                     ELSE IF sc.field < Len(sc.fields)
                          THEN Seek([sc EXCEPT !.stage = "tags", !.field = @ + 1, !.pos = 1])
                          ELSE Seek([sc EXCEPT !.stage = "array", !.pos = 1])

CacheStore_Never(cache, image, ok) == cache

CacheStore_Always(cache, image, ok) == cache \cup {image}

\* Lines 234-235 and 295-296: a transcription is cached, a failure is not.
CacheStore(cache, image, ok) == IF ok THEN cache \cup {image} ELSE cache

\* content.replace(full_match, replacement): every occurrence in the field
\* with the text of the match is replaced (occurrences of one image in one
\* form are written alike).
Replace(sc) ==
    sc.replaced \cup {<<sc.field, i>> : i \in {j \in DOMAIN sc.fields[sc.field] :
                                    sc.fields[sc.field][j] = sc.fields[sc.field][sc.pos]}}

\* One occurrence in a text field: served from the cache, or transcribed by a
\* call whose answer is ok; it is counted when there is a transcription.
Transcribe(sc, image, ok) ==
    IF image \in sc.transcription_cache
    THEN [sc EXCEPT !.total_images = @ + 1,
                    !.replaced = Replace(sc)]
    ELSE [sc EXCEPT !.vision_calls = Append(@, [image |-> image, via |-> "field", ok |-> ok,
                                                at |-> <<sc.field, sc.pos>>]),
                    !.transcription_cache = CacheStore(@, image, ok),
                    !.replaced = IF ok THEN Replace(sc) ELSE @,
                    !.total_images = @ + (IF ok THEN 1 ELSE 0)]

Step(sc) == Seek([sc EXCEPT !.pos = @ + 1])

\* ContentImageProcessor._process_base64_images, one match.
ProcessBase64Image ==
    /\ scan # NoScan
    /\ scan.stage = "tags"
    /\ \E ok \in BOOLEAN :
          /\ (scan.fields[scan.field][scan.pos].image \in scan.transcription_cache) => ok
          /\ scan' = Step(Transcribe(scan, scan.fields[scan.field][scan.pos].image, ok))
    /\ UNCHANGED <<processing_queue, webhooks, next_rowid, worker, response, received,
                   accepted, dequeues, updates, lastRun, lastRequest, call,
                   guard, airtable, stats>>

\* ContentImageProcessor._process_url_images, one match: the image is
\* fetched and captioned by transcribe_from_url, which gives None when the
\* download or the captioning fails.
ProcessUrlImage ==
    /\ scan # NoScan
    /\ scan.stage = "urls"
    /\ LET image == scan.fields[scan.field][scan.pos].image IN
       \E answer \in {"transcription", "no_caption", "no_fetch"} :
          /\ (image \in scan.transcription_cache) => answer = "transcription"
          /\ scan' = Step(IF image \in scan.transcription_cache
                          THEN [scan EXCEPT !.total_images = @ + 1,
                                            !.replaced = Replace(scan)]
                          ELSE [scan EXCEPT
                                  !.vision_calls =
                                      Append(@, [image |-> image, via |-> "url",
                                                 ok |-> answer = "transcription",
                                                 fetched |-> answer # "no_fetch",
                                                 at |-> <<scan.field, scan.pos>>]),
                                  !.transcription_cache =
                                      CacheStore(@, image, answer = "transcription"),
                                  !.replaced = IF answer = "transcription"
                                               THEN Replace(scan) ELSE @,
                                  !.total_images =
                                      @ + (IF answer = "transcription" THEN 1 ELSE 0)])
    /\ UNCHANGED <<processing_queue, webhooks, next_rowid, worker, response, received,
                   accepted, dequeues, updates, lastRun, lastRequest, call,
                   guard, airtable, stats>>

\* Line 284: a data URI whose <img> tag is still in the content is left alone.
StillInTag(sc, image) ==
    /\ \E i \in DOMAIN sc.fields[sc.field] :
          sc.fields[sc.field][i] = [image |-> image, form |-> "img_tag"]
    /\ image \notin sc.transcription_cache

\* ContentImageProcessor._process_standalone_base64, one match.
ProcessStandaloneBase64 ==
    /\ scan # NoScan
    /\ scan.stage = "uris"
    /\ LET image == scan.fields[scan.field][scan.pos].image IN
       \E ok \in BOOLEAN :
          /\ (image \in scan.transcription_cache \/ StillInTag(scan, image)) => ok
          /\ scan' = IF StillInTag(scan, image)
                     THEN Step(scan)
                     ELSE Step(Transcribe(scan, image, ok))
    /\ UNCHANGED <<processing_queue, webhooks, next_rowid, worker, response, received,
                   accepted, dequeues, updates, lastRun, lastRequest, call,
                   guard, airtable, stats>>

ProcessBase64ImagesArray_Cached ==
    /\ scan # NoScan
    /\ scan.stage = "array"
    /\ \E ok \in BOOLEAN :
          /\ (scan.attachments[scan.pos] = ""
                \/ scan.attachments[scan.pos] \in scan.transcription_cache) => ok
          /\ scan' =
                IF scan.attachments[scan.pos] = ""
                THEN Step(scan)
                ELSE IF scan.attachments[scan.pos] \in scan.transcription_cache
                THEN Step([scan EXCEPT
                             !.base64_transcriptions =
                                 Append(@, [index |-> scan.pos - 1,
                                            image |-> scan.attachments[scan.pos]]),
                             !.total_images = @ + 1])
                ELSE Step([scan EXCEPT
                             !.vision_calls =
                                 Append(@, [image |-> scan.attachments[scan.pos],
                                            via |-> "array", ok |-> ok]),
                             !.transcription_cache =
                                 CacheStore(@, scan.attachments[scan.pos], ok),
                             !.base64_transcriptions =
                                 IF ok THEN Append(@, [index |-> scan.pos - 1,
                                                       image |-> scan.attachments[scan.pos]])
                                 ELSE @,
                             !.total_images = @ + (IF ok THEN 1 ELSE 0)])
    /\ UNCHANGED <<processing_queue, webhooks, next_rowid, worker, response, received,
                   accepted, dequeues, updates, lastRun, lastRequest, call,
                   guard, airtable, stats>>

\* ForumContentProcessor._process_base64_images_array, one entry: an entry
\* without data is passed over; for any other the transcriber is called
\* directly, and a transcription is appended with the index of the entry.
ProcessBase64ImagesArray ==
    /\ scan # NoScan
    /\ scan.stage = "array"
    /\ \E ok \in BOOLEAN :
          /\ scan.attachments[scan.pos] = "" => ok
          /\ scan' =
                IF scan.attachments[scan.pos] = ""
                THEN Step(scan)
                ELSE Step([scan EXCEPT
                             !.vision_calls =
                                 Append(@, [image |-> scan.attachments[scan.pos],
                                            via |-> "array", ok |-> ok]),
                             !.base64_transcriptions =
                                 IF ok THEN Append(@, [index |-> scan.pos - 1,
                                                       image |-> scan.attachments[scan.pos]])
                                 ELSE @,
                             !.total_images = @ + (IF ok THEN 1 ELSE 0)])
    /\ UNCHANGED <<processing_queue, webhooks, next_rowid, worker, response, received,
                   accepted, dequeues, updates, lastRun, lastRequest, call,
                   guard, airtable, stats>>

\* ------------------------------------------------- one LLM invocation
\* ClaudeClient.call_agent as its runner calls it, attempt by attempt.
\* retry_count is the default of the parameter; no caller passes another.
retry_count == 2
\* The runners of ForumProcessor that call call_agent.
Runners == {"_run_classifier", "_run_specialized_tool", "_format_to_html"}
\* What one attempt gives: an error of the API, any other exception, or a text
\* response: one holding the JSON object the runner looks for, one holding a
\* JSON object without the key the formatter reads (response_html), or one in
\* which parse_json_response finds no JSON object.
AttemptErrors == {"APIError", "Exception"}
AttemptAnswers == AttemptErrors \cup {"json", "json_bare", "text"}

NewCall(runner, answers) ==
    [runner |-> runner,
     answers |-> answers,
     attempt |-> 0,
     slept |-> <<>>,
     result |-> "pending",
     stage |-> "pending"]

call_agent_attempt_NoRetry(c) ==
    LET n == c.attempt + 1 IN
    IF c.answers[n] \notin AttemptErrors
    THEN [c EXCEPT !.attempt = n, !.result = c.answers[n]]
    ELSE [c EXCEPT !.attempt = n, !.result = None]

\* One pass of the loop of call_agent: the response is returned, or the error
\* is logged and the loop sleeps 3 * (attempt + 1) seconds before the next
\* pass, or, after the last pass, None is returned.
call_agent_attempt(c) ==
    LET n == c.attempt + 1 IN
    IF c.answers[n] \notin AttemptErrors
    THEN [c EXCEPT !.attempt = n, !.result = c.answers[n]]
    ELSE IF n < retry_count
         THEN [c EXCEPT !.attempt = n, !.slept = Append(@, 3 * n)]
         ELSE [c EXCEPT !.attempt = n, !.result = None]

\* What the stage makes of the result of call_agent: "returned" when the
\* runner hands a result to process_forum_post that it can go on with,
\* "failed" otherwise (the runner returns None, or for the responder the
\* missing parsed output raises at line 415).
StageOutcome(runner, result) ==
    CASE result = None -> "failed"
      [] runner = "_run_classifier" ->
            IF result \in {"json", "json_bare"} THEN "returned" ELSE "failed"
      [] runner = "_run_specialized_tool" ->
            IF result \in {"json", "json_bare"} THEN "returned" ELSE "failed"
      [] OTHER -> IF result = "json" THEN "returned" ELSE "failed"

CallAgentAttempt ==
    /\ call # NoCall
    /\ call.result = "pending"
    /\ call.attempt < retry_count
    /\ call' = call_agent_attempt(call)
    /\ UNCHANGED <<processing_queue, webhooks, next_rowid, worker, response, received,
                   accepted, dequeues, updates, lastRun, lastRequest, scan,
                   guard, airtable, stats>>

RunnerReturns ==
    /\ call # NoCall
    /\ call.result # "pending"
    /\ call.stage = "pending"
    /\ call' = [call EXCEPT !.stage = StageOutcome(call.runner, call.result)]
    /\ UNCHANGED <<processing_queue, webhooks, next_rowid, worker, response, received,
                   accepted, dequeues, updates, lastRun, lastRequest, scan,
                   guard, airtable, stats>>

\* ---------------------------------------------------- one forum post
\* ForumPostClient.post_response, attempt by attempt.  The default of its
\* parameter retry_count; post_forum_response passes no other.
post_response_retry_count == 3
\* What the forum service does with one attempt: it accepts the post (200,
\* 201, 202), it answers with an error status and a body, or requests.post
\* raises (timeout, connection error).  The error answers are told apart by
\* what post_response looks at: whether _is_parsing_error finds an indicator
\* in the body, and whether the status is a client error other than 429.
PostAnswers == {"accepted", "parsing_4xx", "parsing_5xx", "client_4xx",
                "status_429", "server_5xx", "raised"}
ParsingAnswers == {"parsing_4xx", "parsing_5xx"}
ClientAnswers == {"parsing_4xx", "client_4xx"}

NewPost(answers) ==
    [answers |-> answers,
     attempt |-> 0,
     html_cleaned |-> FALSE,
     cleanings |-> 0,
     sent |-> <<>>,
     slept |-> <<>>,
     returned |-> FALSE,
     success |-> FALSE,
     reported_html_cleaned |-> FALSE,
     error |-> None]

\* clean_html(post_text) becomes the text of the following attempts.
Sanitize(c) == [c EXCEPT !.html_cleaned = TRUE, !.cleanings = @ + 1]

\* The end of a pass that did not return: the pause before the next pass (not
\* after "continue"), or the failure reported when the loop is over.
EndOfPass(c, continued) ==
    IF c.attempt < post_response_retry_count
    THEN IF continued THEN c ELSE [c EXCEPT !.slept = Append(@, 2 ^ (c.attempt - 1))]
    ELSE [c EXCEPT !.returned = TRUE, !.error = "Failed after attempts"]

post_response_attempt_NoSanitizedRetry(c) ==
    LET n == c.attempt + 1
        answer == c.answers[n]
        posted == [c EXCEPT !.attempt = n,
                            !.sent = Append(@, IF c.html_cleaned THEN "cleaned" ELSE "raw")]
    IN  CASE answer = "accepted" ->
                [posted EXCEPT !.returned = TRUE, !.success = TRUE,
                               !.reported_html_cleaned = c.html_cleaned]
          [] answer = "raised" -> EndOfPass(posted, FALSE)
          [] answer \in ClientAnswers ->
                [posted EXCEPT !.returned = TRUE, !.error = "status"]
          [] OTHER -> EndOfPass(posted, FALSE)

\* One pass of the loop of post_response.
post_response_attempt(c) ==
    LET n == c.attempt + 1
        answer == c.answers[n]
        posted == [c EXCEPT !.attempt = n,
                            !.sent = Append(@, IF c.html_cleaned THEN "cleaned" ELSE "raw")]
    IN  CASE answer = "accepted" ->
                [posted EXCEPT !.returned = TRUE, !.success = TRUE,
                               !.reported_html_cleaned = c.html_cleaned]
          [] answer = "raised" -> EndOfPass(posted, FALSE)
          [] answer \in ParsingAnswers /\ ~c.html_cleaned ->
                EndOfPass(Sanitize(posted), TRUE)
          [] answer \in ClientAnswers ->
                IF ~c.html_cleaned
                THEN EndOfPass(Sanitize(posted), TRUE)
                ELSE [posted EXCEPT !.returned = TRUE, !.error = "status"]
          [] OTHER -> EndOfPass(posted, FALSE)

PostResponseAttempt ==
    /\ call # NoCall
    /\ ~call.returned
    /\ call' = post_response_attempt(call)
    /\ UNCHANGED <<processing_queue, webhooks, next_rowid, worker, response, received,
                   accepted, dequeues, updates, lastRun, lastRequest, scan,
                   guard, airtable, stats>>

\* ------------------------------------------- one processor for each job
\* The content of the scanned fields of a job in SpecCaches: at most one inline
\* image in each field, and no attachments.
JobContents ==
    {c \in FieldContents :
        Len(c) <= 1 /\ \A i \in DOMAIN c : c[i].form \in {"img_tag", "data_uri"}}

ForumProcessor_Reused(old, job, fields) ==
    [job |-> job] @@
    [NewScan(fields, <<>>) EXCEPT
        !.transcription_cache = IF old = NoScan THEN {} ELSE old.transcription_cache]

\* ForumProcessor(): the processor of a job has its own ForumContentProcessor,
\* whose ContentImageProcessor starts with an empty transcription_cache.  old
\* is the processor of the worker's previous job, which nothing refers to.
ForumProcessor(old, job, fields) == [job |-> job] @@ NewScan(fields, <<>>)

\* The job the worker holds has its processor.
HasProcessor(w) ==
    /\ worker[w] # NoItem
    /\ scan[w] # NoScan
    /\ scan[w].job = worker[w][1].request

\* process_webhook_background, line 267: the job's processor is constructed,
\* and process_forum_data finds the first match.
ConstructProcessor(w) ==
    /\ worker[w] # NoItem
    /\ ~HasProcessor(w)
    /\ \E fields \in [DOMAIN ScanFields -> JobContents] :
          scan' = [scan EXCEPT ![w] = Seek(ForumProcessor(scan[w], worker[w][1].request,
                                                          fields))]
    /\ UNCHANGED <<processing_queue, webhooks, next_rowid, worker, response, received,
                   accepted, dequeues, updates, lastRun, lastRequest, call,
                   guard, airtable, stats>>

\* One match of the scan of the worker's job: _process_base64_images and
\* _process_standalone_base64 on the cache of the job's own processor.
ScanMatch(w) ==
    /\ HasProcessor(w)
    /\ scan[w].stage \in {"tags", "uris"}
    /\ LET sc == scan[w]
           image == sc.fields[sc.field][sc.pos].image
           skipped == sc.stage = "uris" /\ StillInTag(sc, image)
       IN  \E ok \in BOOLEAN :
              /\ (image \in sc.transcription_cache \/ skipped) => ok
              /\ scan' = [scan EXCEPT ![w] = IF skipped THEN Step(sc)
                                             ELSE Step(Transcribe(sc, image, ok))]
    /\ UNCHANGED <<processing_queue, webhooks, next_rowid, worker, response, received,
                   accepted, dequeues, updates, lastRun, lastRequest, call,
                   guard, airtable, stats>>

\* The rest of the job once its scan is over.
FinishScanned(w) ==
    /\ HasProcessor(w)
    /\ scan[w].stage = "done"
    /\ ProcessJob(w)

\* ---------------------------------------------------------- specifications
Init ==
    /\ processing_queue = <<>>
    /\ webhooks = {}
    /\ next_rowid = 1
    /\ worker = [w \in Workers |-> NoItem]
    /\ response = [request |-> 0, status_code |-> 0]
    /\ received = 0
    /\ accepted = {}
    /\ dequeues = [r \in ReqIds |-> 0]
    /\ updates = [r \in ReqIds |-> 0]
    /\ lastRun = <<>>
    /\ lastRequest = <<>>
    /\ call = NoCall
    /\ guard = NoGuard
    /\ airtable = NoStore
    /\ stats = NoStats
    /\ scan = NoScan

Next ==
    \/ \E req \in Requests : ReceiveWebhook(req)
    \/ \E w \in Workers : Dequeue(w)
    \/ \E w \in Workers : ProcessJob(w)

Spec == Init /\ [][Next]_vars

\* The workers are threads of the process: a worker that can take a step takes it.
FairSpec == Spec /\ \A w \in Workers : WF_vars(Dequeue(w)) /\ WF_vars(ProcessJob(w))

\* One request has just been accepted; the workers take it from there.
InitRun ==
    /\ \E req \in {r \in Requests : Rejection(r) = 0} :
          processing_queue =
              <<[request |-> 1,
                 forum_data |-> ForumData(req),
                 correlation_id |-> req.correlationId]>>
    /\ webhooks = {NewRow(1, processing_queue[1].correlation_id)}
    /\ next_rowid = 2
    /\ worker = [w \in Workers |-> NoItem]
    /\ response = [request |-> 1, status_code |-> 202]
    /\ received = 1
    /\ accepted = {1}
    /\ dequeues = [r \in ReqIds |-> 0]
    /\ updates = [r \in ReqIds |-> 0]
    /\ lastRun = <<>>
    /\ lastRequest = <<>>
    /\ call = NoCall
    /\ guard = NoGuard
    /\ airtable = NoStore
    /\ stats = NoStats
    /\ scan = NoScan

NextRun ==
    \/ \E w \in Workers : Dequeue(w)
    \/ \E w \in Workers : ProcessJobTraced(w)

SpecRun == InitRun /\ [][NextRun]_vars

\* Two requests have just been accepted, with the same correlation id or with
\* different ones: the table holds what save_webhook_received left.
InitPair ==
    /\ \E c1, c2 \in CorrIds, u1, u2 \in BOOLEAN :
          /\ processing_queue =
                <<[request |-> 1,
                   forum_data |-> [correlationId |-> c1, hasUrl |-> u1, origin |-> "payload"],
                   correlation_id |-> c1],
                  [request |-> 2,
                   forum_data |-> [correlationId |-> c2, hasUrl |-> u2, origin |-> "payload"],
                   correlation_id |-> c2]>>
          /\ webhooks = save_webhook_received(save_webhook_received({}, 1, c1), 2, c2)
    /\ next_rowid = 3
    /\ worker = [w \in Workers |-> NoItem]
    /\ response = [request |-> 2, status_code |-> 202]
    /\ received = 2
    /\ accepted = {1, 2}
    /\ dequeues = [r \in ReqIds |-> 0]
    /\ updates = [r \in ReqIds |-> 0]
    /\ lastRun = <<>>
    /\ lastRequest = <<>>
    /\ call = NoCall
    /\ guard = NoGuard
    /\ airtable = NoStore
    /\ stats = NoStats
    /\ scan = NoScan

NextPair ==
    \/ \E w \in Workers : Dequeue(w)
    \/ \E w \in Workers : ProcessJobLogged(w)

SpecPair == InitPair /\ [][NextPair]_vars

\* Two accepted jobs without links; no processor has been constructed yet.
InitCaches ==
    /\ processing_queue =
          <<[request |-> 1,
             forum_data |-> [correlationId |-> "c1", hasUrl |-> FALSE, origin |-> "payload"],
             correlation_id |-> "c1"],
            [request |-> 2,
             forum_data |-> [correlationId |-> "c2", hasUrl |-> FALSE, origin |-> "payload"],
             correlation_id |-> "c2"]>>
    /\ webhooks = save_webhook_received(save_webhook_received({}, 1, "c1"), 2, "c2")
    /\ next_rowid = 3
    /\ worker = [w \in Workers |-> NoItem]
    /\ response = [request |-> 2, status_code |-> 202]
    /\ received = 2
    /\ accepted = {1, 2}
    /\ dequeues = [r \in ReqIds |-> 0]
    /\ updates = [r \in ReqIds |-> 0]
    /\ lastRun = <<>>
    /\ lastRequest = <<>>
    /\ call = NoCall
    /\ guard = NoGuard
    /\ airtable = NoStore
    /\ stats = NoStats
    /\ scan = [w \in Workers |-> NoScan]

NextCaches ==
    \/ \E w \in Workers : Dequeue(w)
    \/ \E w \in Workers : ConstructProcessor(w)
    \/ \E w \in Workers : ScanMatch(w)
    \/ \E w \in Workers : FinishScanned(w)

SpecCaches == InitCaches /\ [][NextCaches]_vars

\* One LLM invocation by one of the runners, with any answers to its attempts.
InitCall ==
    /\ processing_queue = <<>>
    /\ webhooks = {}
    /\ next_rowid = 1
    /\ worker = [w \in Workers |-> NoItem]
    /\ response = [request |-> 0, status_code |-> 0]
    /\ received = 0
    /\ accepted = {}
    /\ dequeues = [r \in ReqIds |-> 0]
    /\ updates = [r \in ReqIds |-> 0]
    /\ lastRun = <<>>
    /\ lastRequest = <<>>
    /\ guard = NoGuard
    /\ airtable = NoStore
    /\ stats = NoStats
    /\ scan = NoScan
    /\ \E runner \in Runners, answers \in [1..retry_count -> AttemptAnswers] :
          call = NewCall(runner, answers)

NextCall ==
    \/ CallAgentAttempt
    \/ RunnerReturns

SpecCall == InitCall /\ [][NextCall]_vars

\* One call of post_response, with any answers of the forum service.
InitPost ==
    /\ processing_queue = <<>>
    /\ webhooks = {}
    /\ next_rowid = 1
    /\ worker = [w \in Workers |-> NoItem]
    /\ response = [request |-> 0, status_code |-> 0]
    /\ received = 0
    /\ accepted = {}
    /\ dequeues = [r \in ReqIds |-> 0]
    /\ updates = [r \in ReqIds |-> 0]
    /\ lastRun = <<>>
    /\ lastRequest = <<>>
    /\ guard = NoGuard
    /\ airtable = NoStore
    /\ stats = NoStats
    /\ scan = NoScan
    /\ \E answers \in [1..post_response_retry_count -> PostAnswers] :
          call = NewPost(answers)

NextPost == PostResponseAttempt

SpecPost == InitPost /\ [][NextPost]_vars

\* The whole server with the latest request kept in lastRequest.
NextGate ==
    \/ \E req \in Requests : ReceiveWebhookTraced(req)
    \/ \E w \in Workers : Dequeue(w)
    \/ \E w \in Workers : ProcessJob(w)

SpecGate == Init /\ [][NextGate]_vars

\* The image scan of one job: any content of the scanned fields and of the
\* attachment array, any answers of the captioning calls.
InitScan ==
    /\ processing_queue = <<>>
    /\ webhooks = {}
    /\ next_rowid = 1
    /\ worker = [w \in Workers |-> NoItem]
    /\ response = [request |-> 0, status_code |-> 0]
    /\ received = 0
    /\ accepted = {}
    /\ dequeues = [r \in ReqIds |-> 0]
    /\ updates = [r \in ReqIds |-> 0]
    /\ lastRun = <<>>
    /\ lastRequest = <<>>
    /\ call = NoCall
    /\ guard = NoGuard
    /\ airtable = NoStore
    /\ stats = NoStats
    /\ \E fields \in [DOMAIN ScanFields -> FieldContents], attachments \in AttachmentLists :
          scan = Seek(NewScan(fields, attachments))

NextScan ==
    \/ ProcessBase64Image
    \/ ProcessUrlImage
    \/ ProcessStandaloneBase64
    \/ ProcessBase64ImagesArray

SpecScan == InitScan /\ [][NextScan]_vars

\* ------------------------------------------------------------ properties
\* The run a worker has just finished (SpecRun keeps it in lastRun).
RunDone == lastRun # <<>>
TheRun == lastRun[1].run
TheEnv == lastRun[1].env
TheItem == lastRun[1].item
\* Every call to a collaborator made during the run, in order.
RunCalls == {TheRun.save_status.calls[i] : i \in DOMAIN TheRun.save_status.calls}
Count(calls, name) == Cardinality({i \in DOMAIN calls : calls[i] = name})
LlmCalls == {"a1_triage", "a2_deep_sm", "tool_3", "tool_4", "tool_5", "tool_6", "tool_7"}
ResponderCalls == {"tool_3", "tool_4", "tool_5", "tool_6"}
\* The ledger row of the finished job.
RowOf(correlation_id) == {row \in webhooks : row.correlation_id = correlation_id}

\* C1: the queue never holds more than MAX_QUEUE_SIZE items, and a request
\* that is recorded while MAX_QUEUE_SIZE items are queued is answered at once
\* with 503 and leaves the queue as it was.
C1_QueueFullRejects ==
    [][ /\ Len(processing_queue') <= MAX_QUEUE_SIZE
        /\ (Len(processing_queue) = MAX_QUEUE_SIZE /\ next_rowid' # next_rowid)
              => /\ processing_queue' = processing_queue
                 /\ response'.status_code = 503
                 /\ response'.request = received + 1 ]_vars

C1_Witness ==
    /\ Len(processing_queue) = MAX_QUEUE_SIZE
    /\ response.status_code = 503
    /\ response.request = received

\* C2: a job whose forum data holds a link (the URL guard ran and found it)
\* ends the state machine with url_detected, and no classifier, responder or
\* formatter is called, nothing is upserted, nothing is posted to the forum and
\* no Teams notification is sent.
C2_UrlDetectedStops ==
    (RunDone /\ TheItem.forum_data.hasUrl /\ ~TheEnv.ctorFault /\ ~TheEnv.guardFault)
        => /\ TheRun.results.processing_status = "url_detected"
           /\ TheRun.results.url_check
           /\ RunCalls \cap (LlmCalls \cup {"airtable", "forum_post", "teams"}) = {}

C2_Witness ==
    /\ RunDone
    /\ TheItem.forum_data.hasUrl
    /\ TheRun.results.processing_status = "url_detected"
    /\ "url_guard" \in RunCalls

\* C3: when the triage classifier answers with a class other than SM_Doubt the
\* job ends with hil_exception and hil_flag set, and neither the deep
\* classifier nor a responder nor the formatter is called.
C3_TriageRoutesToHil ==
    (RunDone /\ ~TheItem.forum_data.hasUrl /\ Started(TheEnv)
             /\ TheEnv.a1 \notin {"fail", "SM_Doubt"})
        => /\ TheRun.results.processing_status = "hil_exception"
           /\ TheRun.results.hil_flag
           /\ RunCalls \cap (LlmCalls \ {"a1_triage"}) = {}

C3_Witness ==
    /\ RunDone
    /\ "a1_triage" \in RunCalls
    /\ TheRun.results.a1_result = "Gratitude"
    /\ TheRun.results.processing_status = "hil_exception"

\* The posting decision as a function of terminal status, deep classification
\* and correction verdict (compared without regard to case).
PostingDecision(status, classification, verdict) ==
    /\ status = "completed"
    /\ classification = "Pointing_Out_Corrections" => verdict \in {"INVALID", "invalid"}

C5_PostOnlyWhenCompleted ==
    (RunDone /\ "forum_post" \in RunCalls)
        => TheRun.results.processing_status = "completed"

C5_Witness ==
    /\ RunDone
    /\ TheRun.saved
    /\ TheRun.results.processing_status = "hil_exception"
    /\ TheRun.results.final_response_html \notin {None, ""}
    /\ "forum_post" \notin RunCalls

TerminalStatuses == {"completed", "hil_exception", "error", "url_detected"}

\* C6: with workers that keep running, every accepted request is eventually
\* dequeued and its row updated, each exactly once, and the update writes a
\* terminal status.
C6_AcceptedJobsSettle ==
    /\ \A r \in ReqIds : (r \in accepted) ~> (dequeues[r] = 1 /\ updates[r] = 1)
    /\ [](\A r \in ReqIds : /\ dequeues[r] <= 1
                            /\ updates[r] <= dequeues[r]
                            /\ dequeues[r] = 1 => r \in accepted)
    /\ [][\A w \in Workers :
            (worker[w] # NoItem /\ worker'[w] = NoItem)
                => /\ updates'[worker[w][1].request] = 1
                   /\ \E row \in webhooks' :
                         /\ row.correlation_id = worker[w][1].correlation_id
                         /\ row.status \in TerminalStatuses]_vars

C6_Witness ==
    /\ received = MaxRequests
    /\ accepted # {}
    /\ \A r \in accepted : dequeues[r] = 1 /\ updates[r] = 1
    /\ \E row \in webhooks : row.status = "error"

C8_OneNotificationPerJob ==
    (RunDone /\ TheRun.results.processing_status # "pending")
        => Count(TheRun.save_status.calls, "teams") = 1

A1Failed == "a1_triage" \in RunCalls /\ TheEnv.a1 = "fail"
A2Failed == "a2_deep_sm" \in RunCalls /\ TheEnv.a2 = "fail"
ResponderFailed == RunCalls \cap ResponderCalls # {} /\ TheEnv.tool # "ok"
FormatterFailed == "tool_7" \in RunCalls /\ ~TheEnv.fmtOk

C11_RoutingTable ==
    (RunDone /\ "a2_deep_sm" \in RunCalls /\ TheEnv.a2 # "fail")
        => LET responders == {i \in DOMAIN TheRun.save_status.calls :
                                  TheRun.save_status.calls[i] \in ResponderCalls}
               expected == CASE TheEnv.a2 = "Genuine_Doubt" -> {"tool_3"}
                             [] TheEnv.a2 = "Pointing_Out_Corrections" -> {"tool_4"}
                             [] TheEnv.a2 = "Variation_of_Question" -> {"tool_5"}
                             [] TheEnv.a2 = "Alternate_Approach" -> {"tool_6"}
                             [] OTHER -> {}
           IN  /\ RunCalls \cap ResponderCalls = expected
               /\ Cardinality(responders) = Cardinality(expected)
               /\ expected = {} => /\ TheRun.results.processing_status = "error"
                                   /\ "tool_7" \notin RunCalls

C11_Witness ==
    /\ RunDone
    /\ TheRun.results.a2_result = "Unknown_Class"
    /\ TheRun.results.processing_status = "error"
    /\ "a2_deep_sm" \in RunCalls

\* The request handled by the latest gateway step (SpecGate keeps it).
TheRequest == lastRequest[1]
GatewayStep == received' # received
\* The requests the gateway has to reject.
MustReject(req, queue) ==
    \/ req.auth # "ok"
    \/ req.body # "payload"
    \/ req.correlationId = None
    \/ (~req.has_full_data /\ ~req.fetchOk)
    \/ Len(queue) = MAX_QUEUE_SIZE

\* C12: a request rejected for authentication, body, missing correlation id,
\* failed fetch or full queue leaves the queue as it was and is not answered
\* 202; every other request is answered 202 and adds exactly one job, its own,
\* at the end of the queue; no other step adds a job.
C12_RejectionsCreateNoJob ==
    [][ /\ GatewayStep =>
              IF MustReject(lastRequest'[1], processing_queue)
              THEN /\ processing_queue' = processing_queue
                   /\ response'.status_code \in {400, 401, 403, 500, 502, 503}
                   /\ accepted' = accepted
              ELSE /\ Len(processing_queue') = Len(processing_queue) + 1
                   /\ SubSeq(processing_queue', 1, Len(processing_queue)) = processing_queue
                   /\ processing_queue'[Len(processing_queue')].request = received'
                   /\ processing_queue'[Len(processing_queue')].correlation_id
                         = lastRequest'[1].correlationId
                   /\ response'.status_code = 202
                   /\ accepted' = accepted \cup {received'}
        /\ ~GatewayStep => Len(processing_queue') <= Len(processing_queue) ]_vars

C12_Witness ==
    /\ lastRequest # <<>>
    /\ TheRequest.auth = "ok" /\ TheRequest.body = "payload"
    /\ TheRequest.correlationId = None
    /\ response.status_code = 400
    /\ accepted = {1}
    /\ Len(processing_queue) = 1

\* C13: for a payload with a correlation id and no content the gateway asks
\* for the record; when the fetch succeeds the enqueued job carries the fetched
\* record, and when it fails the request is answered 502 and neither the queue
\* nor the table changes.
C13_IdOnlyPayloadIsFetched ==
    [][ (GatewayStep /\ lastRequest'[1].auth = "ok" /\ lastRequest'[1].body = "payload"
                     /\ lastRequest'[1].correlationId # None
                     /\ ~lastRequest'[1].has_full_data)
            => IF lastRequest'[1].fetchOk
               THEN \/ response'.status_code = 503
                    \/ /\ response'.status_code = 202
                       /\ processing_queue'[Len(processing_queue')].forum_data.origin
                             = "fetched"
               ELSE /\ response'.status_code = 502
                    /\ processing_queue' = processing_queue
                    /\ webhooks' = webhooks
                    /\ next_rowid' = next_rowid ]_vars

C13_Witness ==
    /\ lastRequest # <<>>
    /\ ~TheRequest.has_full_data /\ TheRequest.fetchOk
    /\ response.status_code = 202
    /\ Len(processing_queue) = 1
    /\ processing_queue[1].forum_data.origin = "fetched"

\* C14: the table never holds two rows with one correlation id, and a recorded
\* request leaves exactly one row for its correlation id, a fresh one: status
\* pending (rejected when the queue was full), no forum post status.
C14_OneRowPerCorrelationId ==
    [][ /\ \A r1, r2 \in webhooks' : r1.correlation_id = r2.correlation_id => r1 = r2
        /\ (GatewayStep /\ next_rowid' # next_rowid)
              => \E row \in webhooks' :
                    /\ {r \in webhooks' : r.correlation_id = lastRequest'[1].correlationId}
                          = {row}
                    /\ row.id = next_rowid
                    /\ row.forum_post_status = None
                    /\ row.status = (IF response'.status_code = 202
                                     THEN "pending" ELSE "rejected") ]_vars

C14_Witness ==
    /\ received = 2
    /\ Cardinality(webhooks) = 1
    /\ updates[1] = 1
    /\ \E row \in webhooks : row.id = 2 /\ row.status = "pending"

\* The captioning calls made for the text fields, and the inline occurrences
\* of an image in them.
FieldCalls(image) ==
    {i \in DOMAIN scan.vision_calls :
        scan.vision_calls[i].via = "field" /\ scan.vision_calls[i].image = image}
InlineOccurrences(image) ==
    {<<f, i>> \in (DOMAIN scan.fields) \X (1..MaxOccurrences) :
        i \in DOMAIN scan.fields[f] /\ scan.fields[f][i].image = image}
ScanDone == scan # NoScan /\ scan.stage \in {"array", "done"}

\* C15 as stated: an inline base64 image that occurs twice in the scanned
\* fields of one job causes exactly one captioning call.
C15_OneCallPerRepeatedImage ==
    ScanDone => \A image \in Images :
                    Cardinality(InlineOccurrences(image)) >= 2
                        => Cardinality(FieldCalls(image)) = 1

\* C15 amended: no captioning call is made for an inline image after a call
\* for it succeeded in the same job, so an image whose first call succeeds is
\* captioned by exactly one call however often it occurs; after a failed call
\* nothing is cached and its next occurrence is captioned by a new call.
C15_NoCallAfterSuccess ==
    scan # NoScan =>
        \A image \in Images :
            /\ \A i, j \in FieldCalls(image) : i < j => ~scan.vision_calls[i].ok
            /\ image \in scan.transcription_cache
                  <=> \E i \in FieldCalls(image) : scan.vision_calls[i].ok
            /\ (ScanDone /\ InlineOccurrences(image) # {}) => FieldCalls(image) # {}

C15_Witness ==
    /\ ScanDone
    /\ Cardinality(InlineOccurrences("imgA")) = 2 * Len(ScanFields)
    /\ Cardinality(FieldCalls("imgA")) = 1
    /\ \A i \in FieldCalls("imgA") : scan.vision_calls[i].ok
    /\ scan.total_images = 2 * Len(ScanFields)

\* The steps that follow the state machine, in the order they were made.
Completion == SelectSeq(TheRun.events,
                        LAMBDA e : e \in {"airtable", "forum_post", "teams", "ledger"})
PostWarranted ==
    /\ PostingDecision(TheRun.results.processing_status, TheRun.results.a2_result,
                       TheRun.results.tool_verdict)
    /\ TheRun.results.final_response_html \notin {None, ""}

\* C16: when a job that did not fail is saved, the steps are made in this
\* order, each once: upsert, forum post (when one is warranted, else none),
\* Teams notification, ledger update.
C16_CompletionOrder ==
    (RunDone /\ TheRun.saved /\ TheRun.results.processing_status # "error")
        => Completion = (IF PostWarranted
                         THEN <<"airtable", "forum_post", "teams", "ledger">>
                         ELSE <<"airtable", "teams", "ledger">>)

C16_Witness ==
    /\ RunDone
    /\ TheRun.saved
    /\ Completion = <<"airtable", "forum_post", "teams", "ledger">>
    /\ updates[TheItem.request] = 1

\* C17: with a failed upsert the forum post is still made when warranted and
\* the notification is still sent; with a failed forum post the notification
\* is still sent; in every such run each stage of the state machine is called
\* at most once and the ledger row is updated once.
C17_FailuresDoNotBlock ==
    (RunDone /\ TheRun.saved /\ TheRun.results.processing_status # "error"
             /\ (~TheEnv.upsertOk \/ TheRun.save_status.forum_post_status = "failed"
                                  \/ TheEnv.teams # "ok"))
        => /\ "airtable" \in RunCalls
           /\ "forum_post" \in RunCalls <=> PostWarranted
           /\ "teams" \in RunCalls
           /\ \A name \in LlmCalls : Count(TheRun.save_status.calls, name) <= 1
           /\ Count(TheRun.events, "ledger") = 1
           /\ updates[TheItem.request] = 1

C17_Witness ==
    /\ RunDone
    /\ TheRun.saved
    /\ ~TheRun.save_status.airtable_saved
    /\ TheRun.save_status.forum_post_status = "failed"
    /\ ~TheRun.save_status.teams_notified
    /\ Completion = <<"airtable", "forum_post", "teams", "ledger">>

\* C18 as stated: after a worker finished a job the status of its ledger row
\* is the status the state machine returned.
C18_LedgerStatusIsComputedStatus ==
    (RunDone /\ TheRun.results.processing_status # "pending")
        => \A row \in RowOf(TheItem.correlation_id) :
              row.status = TheRun.results.processing_status

ForumPostStatuses == {"posted", "failed", "skipped_hil", "skipped_validation", "skipped"}

QueuedAt(r) == {i \in DOMAIN processing_queue : processing_queue[i].request = r}
HeldBy(r) == {w \in Workers : worker[w] # NoItem /\ worker[w][1].request = r}

\* C21: whatever the interleaving of gateway threads and workers, the job of an
\* accepted request is in exactly one place: once in the queue, or with exactly
\* one worker, or finished with one ledger update; it is taken from the queue
\* once, by the worker that then holds it until that worker writes its ledger
\* update, and no other worker touches it.
C21_EachJobOneWorkerOnce ==
    /\ [](\A r \in ReqIds :
             /\ dequeues[r] <= 1 /\ updates[r] <= 1
             /\ dequeues[r] = Cardinality(HeldBy(r)) + updates[r]
             /\ Cardinality(QueuedAt(r)) + Cardinality(HeldBy(r)) + updates[r]
                   = (IF r \in accepted THEN 1 ELSE 0))
    /\ [][\A w \in Workers :
            /\ (worker[w] = NoItem /\ worker'[w] # NoItem)
                  => /\ processing_queue # <<>>
                     /\ worker'[w][1] = Head(processing_queue)
                     /\ processing_queue' = Tail(processing_queue)
                     /\ \A v \in Workers \ {w} : worker'[v] = worker[v]
            /\ worker[w] # NoItem
                  => /\ worker'[w] \in {worker[w], NoItem}
                     /\ updates'[worker[w][1].request] =
                           (IF worker'[w] = NoItem THEN 1 ELSE 0)]_vars

C21_Witness ==
    /\ Cardinality(accepted) = MaxRequests
    /\ \A w \in Workers : worker[w] # NoItem
    /\ worker[1][1].request # worker[2][1].request
    /\ Len(processing_queue) = 1
    /\ \A r \in ReqIds : updates[r] = 0

\* The finished runs (SpecPair keeps them in order) of a correlation id.
RunsOn(correlation_id) ==
    SelectSeq(lastRun, LAMBDA run : run.item.correlation_id = correlation_id)

\* C22: a worker takes the oldest job whatever the other workers hold, so two
\* jobs with one correlation id can be held by two workers at once; their
\* updates go to the one row of that id, and after each update the row has the
\* status and the columns of the update written last.
C22_LastUpdateWins ==
    /\ \A w \in Workers :
          (worker[w] = NoItem /\ processing_queue # <<>>) => ENABLED Dequeue(w)
    /\ \A c \in CorrIds :
          RunsOn(c) # <<>> =>
             LET last == RunsOn(c)[Len(RunsOn(c))].ledger_updates[1] IN
             /\ Cardinality(RowOf(c)) = 1
             /\ \A row \in RowOf(c) :
                   /\ row.status = last.status
                   /\ \A col \in DOMAIN last.kwargs : row[col] = last.kwargs[col]

\* The job received first was still held by its worker when the job received
\* second, with the same correlation id, finished on the other worker; the row
\* keeps what the first job wrote afterwards.
C22_Witness ==
    /\ Len(lastRun) = 2
    /\ lastRun[1].item.request = 2 /\ lastRun[2].item.request = 1
    /\ lastRun[1].worker # lastRun[2].worker
    /\ lastRun[1].item.correlation_id = lastRun[2].item.correlation_id
    /\ lastRun[1].ledger_updates[1].status = "completed"
    /\ lastRun[2].ledger_updates[1].status = "error"
    /\ \A row \in webhooks : row.status = "error" /\ row.forum_post_status = "posted"

\* The images a processor's own captioning calls transcribed.
OwnTranscribed(sc) ==
    {sc.vision_calls[i].image : i \in {j \in DOMAIN sc.vision_calls : sc.vision_calls[j].ok}}

\* C23: the transcription cache of a job's processor is empty when the job
\* starts and holds exactly the images that the job's own captioning calls
\* transcribed, whatever a job on another worker or the previous job on the same
\* worker has cached; an image is served from the cache only after a call of the
\* same job transcribed it, and a step of one worker leaves the cache of every
\* other worker's job as it was.
C23_CacheIsPerJob ==
    /\ [](\A w \in Workers :
             scan[w] # NoScan => scan[w].transcription_cache = OwnTranscribed(scan[w]))
    /\ [][\A w \in Workers :
            /\ (scan[w] # NoScan /\ scan'[w] # scan[w])
                  => \A v \in Workers \ {w} : scan'[v] = scan[v]
            /\ (scan'[w] # scan[w] /\ (scan[w] = NoScan \/ scan'[w].job # scan[w].job))
                  => scan'[w].transcription_cache = {} /\ scan'[w].vision_calls = <<>>
            /\ (scan[w] # NoScan /\ scan'[w].job = scan[w].job
                  /\ scan'[w].total_images > scan[w].total_images
                  /\ scan'[w].vision_calls = scan[w].vision_calls)
                  => scan[w].fields[scan[w].field][scan[w].pos].image
                        \in OwnTranscribed(scan[w])]_vars

\* Two jobs with the same image: the second worker's job, and the job the
\* first worker took after its first one, each called for it on their own.
C23_Witness ==
    /\ updates[1] = 1 /\ updates[2] = 0
    /\ HasProcessor(2)
    /\ scan[1] # NoScan /\ scan[1].job = 1
    /\ scan[1].transcription_cache = {"imgA"}
    /\ scan[2].transcription_cache = {"imgA"}
    /\ Len(scan[1].vision_calls) = 1 /\ Len(scan[2].vision_calls) = 1
    /\ scan[2].total_images = 2

\* The stages in the order of process_forum_post, with the responder that the
\* routing table gives for the deep classification.
StageOrder(a2_classification) ==
    <<"url_guard", "image_scan", "a1_triage", "a2_deep_sm",
      tool_mapping(a2_classification), "tool_7">>

\* C24: the stages a job went through are an initial part of URL guard, image
\* scan, triage, deep classification, responder, HTML formatting, each entered
\* once; and a stage was entered only when the stage before it had returned
\* its result: the scan after a guard that found no link, triage after the
\* scan, deep classification after a triage answer, the responder after a deep
\* classification, formatting after a parsed responder output.
C24_StagesInOrder ==
    RunDone =>
        LET results == TheRun.results
            calls == results.calls
            entered == {calls[i] : i \in DOMAIN calls}
        IN  /\ Len(calls) <= 6
            /\ calls = SubSeq(StageOrder(TheEnv.a2), 1, Len(calls))
            /\ \A name \in LlmCalls : Count(calls, name) <= 1
            /\ "image_scan" \in entered => ~results.url_check /\ ~TheEnv.guardFault
            /\ "a1_triage" \in entered => results.image_processing_stats # None
            /\ "a2_deep_sm" \in entered => results.a1_result = "SM_Doubt"
            /\ entered \cap ResponderCalls # {} => results.a2_result \in Routed
            /\ "tool_7" \in entered => results.tool_result = "parsed"

C24_Witness ==
    /\ RunDone
    /\ TheRun.results.calls =
          <<"url_guard", "image_scan", "a1_triage", "a2_deep_sm", "tool_4", "tool_7">>
    /\ TheRun.results.processing_status = "completed"
    /\ Len(TheRun.results.tool_outputs) = 4

\* The attempts an invocation has made so far.
Attempts == 1..call.attempt
AllAttemptsFailed ==
    /\ call.attempt = retry_count
    /\ \A n \in Attempts : call.answers[n] \in AttemptErrors

\* C25 as stated: an invocation makes at most retry_count attempts and
\* returns at the first attempt that succeeds, and its stage is failed only
\* when every attempt of the budget has failed.
C25_FailedOnlyAfterBudget ==
    call # NoCall =>
        /\ call.attempt <= retry_count
        /\ call.result \notin {"pending", None}
              => /\ call.answers[call.attempt] = call.result
                 /\ \A n \in Attempts \ {call.attempt} : call.answers[n] \in AttemptErrors
        /\ call.stage = "failed" => AllAttemptsFailed

\* C25 amended: an invocation makes at most retry_count attempts, sleeping
\* 3, 6, ... seconds between them, returns the response of the first attempt
\* that raises nothing and None only after retry_count failed attempts; its
\* stage fails when the invocation returned None, and also, without another
\* attempt, when the response of the successful attempt holds no JSON object
\* (for the formatter: no object with response_html).
C25_FailedAfterBudgetOrUnparsed ==
    call # NoCall =>
        /\ call.attempt <= retry_count
        /\ \A i \in DOMAIN call.slept :
              call.slept[i] = 3 * i /\ call.answers[i] \in AttemptErrors
        /\ call.result = "pending"
              => /\ \A n \in Attempts : call.answers[n] \in AttemptErrors
                 /\ Len(call.slept) = call.attempt
        /\ call.result \notin {"pending", None}
              => /\ call.answers[call.attempt] = call.result
                 /\ \A n \in Attempts \ {call.attempt} : call.answers[n] \in AttemptErrors
        /\ call.result = None <=> (AllAttemptsFailed /\ Len(call.slept) = retry_count - 1)
        /\ call.stage # "pending"
              => /\ call.result # "pending"
                 /\ call.stage = "failed"
                       <=> \/ call.result = None
                           \/ call.result = "text"
                           \/ call.result = "json_bare" /\ call.runner = "_format_to_html"

C25_Witness ==
    /\ call # NoCall
    /\ call.runner = "_run_classifier"
    /\ call.attempt = 1
    /\ call.result = "text"
    /\ call.stage = "failed"

\* The responder of the finished run answered with a flag set.
Flagged == RunDone /\ ~TheItem.forum_data.hasUrl /\ Replied(TheEnv) /\ TheEnv.flag # "none"
\* The extracted reply is text that is not HTML yet.
NeedsFormatting ==
    /\ Truthy(TheRun.results.final_response)
    /\ Extracted(TheEnv.shape).final_response_html = None

\* C26 as stated: a responder output with an exception or escalation flag
\* sends the job to hil_exception and the HTML formatter is not called.
C26_FlagSkipsFormatter ==
    Flagged => /\ TheRun.results.processing_status = "hil_exception"
               /\ "tool_7" \notin RunCalls

\* C26 amended: the flags are looked at after the formatting step.  A flagged
\* responder output sends the job to hil_exception, and the formatter is
\* called for it exactly as for an output without a flag: once when the
\* extracted reply is not empty and not HTML already, and not otherwise; the
\* final HTML is set either way.
C26_FlagCheckedAfterFormatting ==
    Flagged => /\ TheRun.results.processing_status = "hil_exception"
               /\ TheRun.results.hil_flag
               /\ Count(TheRun.results.calls, "tool_7") = (IF NeedsFormatting THEN 1 ELSE 0)
               /\ TheRun.results.final_response_html # None
               /\ (NeedsFormatting /\ TheEnv.fmtOk)
                     => TheRun.results.final_response_html = "formatted html"

C26_Witness ==
    /\ Flagged
    /\ TheRun.results.tool_flag = "Exception_Flag"
    /\ "tool_7" \in RunCalls
    /\ TheRun.results.final_response_html = "formatted html"
    /\ TheRun.results.processing_status = "hil_exception"

\* The reply was taken from the response_html field of the responder output.
TakenFromHtmlField ==
    /\ "response_obj" \notin DOMAIN ParsedResponse(TheEnv.shape)
    /\ Truthy(Get(ParsedResponse(TheEnv.shape), "response_html", ""))

\* C27: when the reply is taken from the responder's response_html field the
\* formatter is not called and the final HTML is the final text; in every job
\* the formatter is called at most once, and only after a responder output from
\* which a non-empty reply was extracted that did not come from that field.
C27_HtmlReplyIsNotFormatted ==
    RunDone =>
        /\ Count(TheRun.results.calls, "tool_7") <= 1
        /\ "tool_7" \in RunCalls
              => /\ ~TheItem.forum_data.hasUrl /\ Replied(TheEnv)
                 /\ Truthy(TheRun.results.final_response)
                 /\ ~TakenFromHtmlField
        /\ (~TheItem.forum_data.hasUrl /\ Replied(TheEnv) /\ TakenFromHtmlField)
              => /\ "tool_7" \notin RunCalls
                 /\ TheRun.results.final_response = "<html>"
                 /\ TheRun.results.final_response_html = TheRun.results.final_response

C27_Witness ==
    /\ RunDone
    /\ Replied(TheEnv) /\ TakenFromHtmlField
    /\ "tool_7" \notin RunCalls
    /\ TheRun.results.final_response_html = "<html>"
    /\ TheRun.results.processing_status = "completed"
    /\ TheRun.save_status.forum_post_status = "posted"

\* The requests whose jobs have been taken from the queue.
Taken == {r \in ReqIds : dequeues[r] >= 1}

\* C28: the jobs leave the queue in the order in which they entered it: the
\* queue holds the accepted jobs that were not taken yet, oldest first, every
\* job taken was accepted before every job still queued, and a worker takes
\* the oldest queued job; the order in which the jobs finish is free.
C28_QueueIsFifo ==
    /\ [](/\ \A i, j \in DOMAIN processing_queue :
                i < j => processing_queue[i].request < processing_queue[j].request
          /\ \A i \in DOMAIN processing_queue, r \in Taken :
                r < processing_queue[i].request)
    /\ [][\A r \in ReqIds :
            dequeues'[r] > dequeues[r]
               => /\ processing_queue # <<>>
                  /\ processing_queue[1].request = r
                  /\ \A q \in accepted : q < r => q \in Taken
                  /\ \A q \in accepted : q > r => q \notin Taken]_vars

\* Three jobs came out in the order they went in, and the second finished
\* before the first.
C28_Witness ==
    /\ Cardinality(accepted) >= 3
    /\ \A r \in accepted : dequeues[r] = 1
    /\ \E r, q \in accepted : r < q /\ updates[r] = 0 /\ updates[q] = 1

\* The attempts of the post that were answered with a parsing error while the
\* HTML was still as given.
ParsingErrorOnRaw ==
    {n \in 1..call.attempt : call.answers[n] \in ParsingAnswers /\ call.sent[n] = "raw"}

\* C29 as stated: at most post_response_retry_count attempts and at most one
\* sanitization; after every parsing error on HTML not sanitized yet, a
\* further attempt with the sanitized HTML is made before a failure is
\* reported; a success after sanitizing reports html_cleaned.
C29_SanitizedRetryAlways ==
    call # NoCall =>
        /\ call.attempt <= post_response_retry_count
        /\ call.cleanings <= 1
        /\ \A n \in ParsingErrorOnRaw :
              /\ call.returned => call.attempt > n
              /\ call.attempt > n => call.sent[n + 1] = "cleaned"
        /\ (call.returned /\ call.success)
              => call.reported_html_cleaned = (call.sent[call.attempt] = "cleaned")

\* C29 amended: as stated, with the further attempt made when the parsing
\* error did not come on the last attempt of the budget; after a parsing error
\* on the last attempt the HTML is sanitized and the failure is reported with
\* no attempt carrying it.  Every attempt after the sanitization carries the
\* sanitized HTML.
C29_SanitizedRetryWithinBudget ==
    call # NoCall =>
        /\ call.attempt <= post_response_retry_count
        /\ Len(call.sent) = call.attempt
        /\ call.cleanings <= 1
        /\ call.html_cleaned <=> call.cleanings = 1
        /\ \A n \in ParsingErrorOnRaw :
              /\ call.html_cleaned
              /\ n < post_response_retry_count
                    => /\ call.returned => call.attempt > n
                       /\ call.attempt > n => call.sent[n + 1] = "cleaned"
              /\ (n = post_response_retry_count /\ call.returned)
                    => ~call.success /\ call.error = "Failed after attempts"
        /\ \A i, j \in 1..call.attempt :
              (i < j /\ call.sent[i] = "cleaned") => call.sent[j] = "cleaned"
        /\ (call.returned /\ call.success)
              => /\ call.answers[call.attempt] = "accepted"
                 /\ call.reported_html_cleaned = (call.sent[call.attempt] = "cleaned")
        /\ (call.returned /\ ~call.success /\ call.error = "Failed after attempts")
              => call.attempt = post_response_retry_count

C29_Witness ==
    /\ call # NoCall
    /\ call.returned /\ call.success
    /\ call.answers[1] = "parsing_4xx"
    /\ call.sent = <<"raw", "cleaned">>
    /\ call.reported_html_cleaned

\* The LLM invocations of the finished job, in the order they were made.
Invocations == SelectSeq(TheRun.results.calls, LAMBDA name : name \in LlmCalls)
\* The invocation that gave the state machine no result (it is the last one):
\* call_agent returned nothing or, for a classifier or the formatter, its
\* response held no usable JSON.
InvocationFailed ==
    \/ A1Failed
    \/ A2Failed
    \/ RunCalls \cap ResponderCalls # {} /\ TheEnv.tool = "fail"
    \/ FormatterFailed

\* C30 as stated: tool_outputs holds one entry for every LLM invocation of
\* the job, failed ones included, in the order of the invocations, numbered
\* 1, 2, ...
C30_OneOutputPerInvocation ==
    RunDone =>
        /\ Len(TheRun.results.tool_outputs) = Len(Invocations)
        /\ \A i \in DOMAIN TheRun.results.tool_outputs :
              /\ TheRun.results.tool_outputs[i].tool_sequence = i
              /\ TheRun.results.tool_outputs[i].tool_name = ToolName(Invocations[i])

\* C30 amended: tool_outputs holds one entry for every LLM invocation that
\* gave a result, in the order of the invocations, numbered 1, 2, ... with the
\* name of its tool; an invocation that failed ended the stages (or, for the
\* formatter, was the last one) and left no entry.
C30_OneOutputPerAnsweredInvocation ==
    RunDone =>
        /\ Len(TheRun.results.tool_outputs) =
              Len(Invocations) - (IF InvocationFailed THEN 1 ELSE 0)
        /\ Len(TheRun.results.tool_outputs) <= 4
        /\ \A i \in DOMAIN TheRun.results.tool_outputs :
              /\ TheRun.results.tool_outputs[i].tool_sequence = i
              /\ TheRun.results.tool_outputs[i].tool_name = ToolName(Invocations[i])

C30_Witness ==
    /\ RunDone
    /\ Invocations = <<"a1_triage", "a2_deep_sm", "tool_5", "tool_7">>
    /\ FormatterFailed
    /\ Len(TheRun.results.tool_outputs) = 3
    /\ TheRun.results.tool_outputs[3] = [tool_name |-> "TOOL_5", tool_sequence |-> 3]
    /\ TheRun.results.processing_status = "completed"

\* ---------------------------------------------------------- the URL guard
\* A string that url_regex matches in a text (url_detector.py:20-69), by its
\* parts in the order they are written: the text up to the end of the path
\* without its extension, the extension, the query string, the fragment.
\* upper tells the spelling: the same URL is written in lower or upper case.
MatchedUrls ==
    [upper : BOOLEAN, base : {"http://a/x", "http://a/y"}, ext : {"", ".png"},
     query : {"", "?q"}, fragment : {"", "#f"}]

\* What findall gives for a text: its matches from left to right.
UrlTexts(n) == UNION {[1..m -> MatchedUrls] : m \in 0..n}

\* One of the eight IMAGE_EXTENSIONS (line 18).
IMAGE_EXTENSIONS == {".png"}

\* str.lower().
Lower(url) == [url EXCEPT !.upper = FALSE]

\* The parts of a URL that are written, in order.
Written(url) ==
    SelectSeq(<<url.base, url.ext, url.query, url.fragment>>, LAMBDA part : part # "")

\* url_lower.split('?')[0]: what is written before the first '?'.
BeforeQuery(url) ==
    IF url.query # ""
    THEN SelectSeq(<<url.base, url.ext>>, LAMBDA part : part # "")
    ELSE Written(url)

\* URLDetector._is_image_url.
URLDetector_is_image_url(url) ==
    LET base_url == BeforeQuery(Lower(url))
    IN  base_url[Len(base_url)] \in IMAGE_EXTENSIONS

\* The loop of lines 107-116 (and of 141-146, where nothing is excluded).
RECURSIVE Unique(_, _, _, _)
Unique(urls, seen, unique_urls, exclude_images) ==
    IF urls = <<>> THEN unique_urls
    ELSE LET url == Head(urls) IN
         IF Lower(url) \in seen \/ (exclude_images /\ URLDetector_is_image_url(url))
         THEN Unique(Tail(urls), seen, unique_urls, exclude_images)
         ELSE Unique(Tail(urls), seen \cup {Lower(url)}, Append(unique_urls, url),
                     exclude_images)

\* URLDetector.detect_urls.
detect_urls(text) == Unique(text, {}, <<>>, TRUE)

\* URLDetector.check_forum_data.
check_forum_data(forum_data) ==
    LET all_urls == detect_urls(forum_data.forumPostText)
                        \o detect_urls(forum_data.parentPostQuery)
        unique_urls == Unique(all_urls, {}, <<>>, FALSE)
    IN  [has_urls |-> Len(unique_urls) > 0, unique_urls |-> unique_urls]

\* Step 0a of process_forum_post: the guard is asked about the forum data.
CheckForumData ==
    /\ guard # NoGuard
    /\ ~guard.checked
    /\ guard' = [guard EXCEPT !.checked = TRUE,
                              !.url_check = check_forum_data(guard.forum_data).has_urls,
                              !.urls_list = check_forum_data(guard.forum_data).unique_urls]
    /\ UNCHANGED <<processing_queue, webhooks, next_rowid, worker, response, received,
                   accepted, dequeues, updates, lastRun, lastRequest, call,
                   airtable, stats, scan>>

\* The URL check of one job: any matches in the post body and in the parent
\* post's query.
InitGuard ==
    /\ processing_queue = <<>>
    /\ webhooks = {}
    /\ next_rowid = 1
    /\ worker = [w \in Workers |-> NoItem]
    /\ response = [request |-> 0, status_code |-> 0]
    /\ received = 0
    /\ accepted = {}
    /\ dequeues = [r \in ReqIds |-> 0]
    /\ updates = [r \in ReqIds |-> 0]
    /\ lastRun = <<>>
    /\ lastRequest = <<>>
    /\ call = NoCall
    /\ airtable = NoStore
    /\ stats = NoStats
    /\ scan = NoScan
    /\ \E body \in UrlTexts(MaxBodyUrls), parent \in UrlTexts(MaxParentUrls) :
          guard = [forum_data |-> [forumPostText |-> body, parentPostQuery |-> parent],
                   checked |-> FALSE, url_check |-> FALSE, urls_list |-> <<>>]

NextGuard == CheckForumData

SpecGuard == InitGuard /\ [][NextGuard]_vars

\* The matches of the job's texts in the order the guard reads them.
AllMatches == guard.forum_data.forumPostText \o guard.forum_data.parentPostQuery
GuardDone == guard # NoGuard /\ guard.checked

\* The path of a URL ends in a known image extension: the query string and
\* the fragment are not part of the path.
PathIsImage(url) == url.ext \in IMAGE_EXTENSIONS

\* urls_list picks, in order, the first occurrence of each of its URLs.
FirstSeenOrder ==
    \E at \in [DOMAIN guard.urls_list -> DOMAIN AllMatches] :
        /\ \A i, j \in DOMAIN at : i < j => at[i] < at[j]
        /\ \A i \in DOMAIN at :
              /\ AllMatches[at[i]] = guard.urls_list[i]
              /\ \A k \in 1..(at[i] - 1) : Lower(AllMatches[k]) # Lower(guard.urls_list[i])

\* C31 without its clause on image URLs: no two entries of the list are
\* equal up to letter case, the entries are in first-seen order with their
\* first-seen spelling, and found is true exactly when the list is non-empty.
GuardListIsDeduplicated ==
    GuardDone =>
        /\ \A i, j \in DOMAIN guard.urls_list :
              i # j => Lower(guard.urls_list[i]) # Lower(guard.urls_list[j])
        /\ FirstSeenOrder
        /\ guard.url_check <=> guard.urls_list # <<>>

\* C31: the URL list of the guard has no two entries equal up to letter
\* case, is in first-seen order (post body before parent-post query) with
\* the first-seen spelling of each URL, holds no URL whose path, ignoring the
\* query string, ends in a known image extension, and found is true exactly
\* when the list is non-empty.
C31_GuardListIsCanonical ==
    GuardDone =>
        /\ GuardListIsDeduplicated
        /\ \A i \in DOMAIN guard.urls_list : ~PathIsImage(guard.urls_list[i])

\* The occurrences of images in the scanned text fields, each by its field
\* and its position, and the captioning calls that gave no transcription.
Positions == {<<f, i>> \in (DOMAIN scan.fields) \X (1..MaxOccurrences) :
                 i \in DOMAIN scan.fields[f]}
At(p) == scan.fields[p[1]][p[2]]
FailedCalls(image) ==
    {i \in DOMAIN scan.vision_calls :
        scan.vision_calls[i].image = image /\ ~scan.vision_calls[i].ok}

\* C32 without the image links outside a tag: an <img> tag with inline
\* base64, an <img> tag with an image URL and a data URI outside a tag are
\* replaced by a transcription unless a captioning call for the image failed.
CoveredFormsAreTranscribed ==
    ScanDone => \A p \in Positions :
                    (At(p).form # "link" /\ FailedCalls(At(p).image) = {})
                        => p \in scan.replaced

\* C32: every embedded image in a scanned text field is replaced by a
\* transcription when captioning succeeds, whatever its form: an <img> tag
\* with inline base64, an <img> tag with an image URL, a data URI outside a
\* tag, and an image link outside a tag, which the URL guard lets pass.
C32_EveryFormIsTranscribed ==
    ScanDone => \A p \in Positions :
                    FailedCalls(At(p).image) = {} => p \in scan.replaced

\* The calls made for the attachment array, and its entries that hold data.
ArrayCalls == SelectSeq(scan.vision_calls, LAMBDA c : c.via = "array")
ArrayEntries == SelectSeq(scan.attachments, LAMBDA entry : entry # "")

\* C33: every non-empty entry of the attachment array causes its own
\* captioning call, whether or not its image was transcribed before, inline
\* or in the array; the step neither reads nor fills the fingerprint cache,
\* replaces no inline text, and appends an indexed transcription exactly when
\* the call succeeded.
C33_ArrayEntriesAlwaysTranscribed ==
    /\ [](scan # NoScan /\ scan.stage = "done"
            => /\ Len(ArrayCalls) = Len(ArrayEntries)
               /\ \A k \in DOMAIN ArrayCalls : ArrayCalls[k].image = ArrayEntries[k]
               /\ Len(scan.base64_transcriptions)
                    = Cardinality({k \in DOMAIN ArrayCalls : ArrayCalls[k].ok}))
    /\ [][(scan # NoScan /\ scan.stage = "array")
            => /\ scan'.transcription_cache = scan.transcription_cache
               /\ scan'.replaced = scan.replaced
               /\ scan.attachments[scan.pos] # ""
                    => /\ Len(scan'.vision_calls) = Len(scan.vision_calls) + 1
                       /\ scan'.base64_transcriptions =
                            IF scan'.vision_calls[Len(scan'.vision_calls)].ok
                            THEN Append(scan.base64_transcriptions,
                                        [index |-> scan.pos - 1,
                                         image |-> scan.attachments[scan.pos]])
                            ELSE scan.base64_transcriptions]_vars

C33_Witness ==
    /\ scan # NoScan
    /\ scan.stage = "done"
    /\ scan.attachments = <<"imgA", "imgA">>
    /\ \E p \in Positions : At(p).image = "imgA" /\ p \in scan.replaced
    /\ "imgA" \in scan.transcription_cache
    /\ Len(ArrayCalls) = 2
    /\ scan.base64_transcriptions = <<[index |-> 0, image |-> "imgA"],
                                      [index |-> 1, image |-> "imgA"]>>

\* The calls made for an occurrence in a text field that gave no
\* transcription: the download or the captioning failed.
FailedInline ==
    {i \in DOMAIN scan.vision_calls :
        scan.vision_calls[i].via \in {"field", "url"} /\ ~scan.vision_calls[i].ok}
\* The step made a call that gave no transcription.
CallFailed ==
    /\ scan # NoScan
    /\ Len(scan'.vision_calls) = Len(scan.vision_calls) + 1
    /\ ~scan'.vision_calls[Len(scan'.vision_calls)].ok
\* The scan is never stuck before its end, and a failed call changes
\* neither the cache nor the count of transcribed images.
FailureIsNotFatal ==
    /\ [](scan # NoScan /\ scan.stage # "done" => ENABLED NextScan)
    /\ [][CallFailed => /\ scan'.transcription_cache = scan.transcription_cache
                        /\ scan'.total_images = scan.total_images
                        /\ scan'.replaced = scan.replaced
                        /\ scan'.stage \in {"tags", "urls", "uris", "array", "done"}]_vars

\* C34 as stated: a failed fetch or captioning call does not stop the scan,
\* is not counted and is not cached, and the occurrence it was made for stays
\* untranscribed in the text.
C34_FailedOccurrenceStaysUntranscribed ==
    /\ FailureIsNotFatal
    /\ [](ScanDone => \A i \in FailedInline : scan.vision_calls[i].at \notin scan.replaced)

\* C34 amended: a failed fetch or captioning call does not stop the scan, is
\* not counted and is not cached, and the occurrence it was made for stays
\* untranscribed in the text unless a later occurrence with the same text in
\* the same field is transcribed, which replaces every copy of that text.
C34_FailedOccurrenceWaitsForACopy ==
    /\ FailureIsNotFatal
    /\ [](ScanDone => \A i \in FailedInline :
             LET p == scan.vision_calls[i].at IN
             p \in scan.replaced
                => \E j \in DOMAIN scan.vision_calls :
                      /\ j > i
                      /\ scan.vision_calls[j].ok
                      /\ scan.vision_calls[j].via \in {"field", "url"}
                      /\ scan.vision_calls[j].at[1] = p[1]
                      /\ scan.vision_calls[j].at[2] > p[2]
                      /\ At(scan.vision_calls[j].at) = At(p))

C34_Witness ==
    /\ scan # NoScan
    /\ scan.stage = "done"
    /\ scan.fields[1] = <<[image |-> "imgA", form |-> "img_tag"],
                          [image |-> "urlA", form |-> "img_url"]>>
    /\ scan.fields[2] = <<[image |-> "imgA", form |-> "img_tag"]>>
    /\ Len(scan.vision_calls) = 3
    /\ scan.vision_calls[1].image = "imgA" /\ ~scan.vision_calls[1].ok
    /\ scan.vision_calls[2].image = "urlA" /\ ~scan.vision_calls[2].fetched
    /\ scan.vision_calls[3].image = "imgA" /\ scan.vision_calls[3].ok
    /\ scan.replaced = {<<2, 1>>}
    /\ scan.total_images = 1

\* ------------------------------------------------------- the record store
\* No upsert is in progress on the worker.
NoUpsert == <<>>

\* save_results calls upsert_forum_response for the worker's job.
StartUpsert(w) ==
    /\ airtable # NoStore
    /\ airtable.upsert[w] = NoUpsert
    /\ airtable.started < MaxUpserts
    /\ \E correlation_id \in CorrIds :
          airtable' = [airtable EXCEPT
                          !.started = @ + 1,
                          !.upsert[w] = [correlation_id |-> correlation_id,
                                         stage |-> "find",
                                         existing_record |-> {}]]
    /\ UNCHANGED <<processing_queue, webhooks, next_rowid, worker, response, received,
                   accepted, dequeues, updates, lastRun, lastRequest, call,
                   guard, stats, scan>>

\* AirtableClient._find_by_correlation_id: the first record with the id when
\* the search is answered with 200, None when there is none, and None as well
\* when the search fails (another status, or an exception of the request).
\* The answer is the set of the record's index; None is the empty set.
find_by_correlation_id(records, correlation_id, answered) ==
    LET found == {i \in DOMAIN records : records[i].Forum_Corr_ID = correlation_id}
    IN  IF answered /\ found # {}
        THEN {CHOOSE i \in found : \A j \in found : i <= j}
        ELSE {}

\* Line 129 of upsert_forum_response.
FindByCorrelationId(w) ==
    /\ airtable # NoStore
    /\ airtable.upsert[w] # NoUpsert
    /\ airtable.upsert[w].stage = "find"
    /\ \E answered \in BOOLEAN :
          airtable' = [airtable EXCEPT
                          !.upsert[w].stage = "write",
                          !.upsert[w].existing_record =
                              find_by_correlation_id(airtable.records,
                                                     airtable.upsert[w].correlation_id,
                                                     answered)]
    /\ UNCHANGED <<processing_queue, webhooks, next_rowid, worker, response, received,
                   accepted, dequeues, updates, lastRun, lastRequest, call,
                   guard, stats, scan>>

\* Lines 150-155 of upsert_forum_response: update_record on the record that
\* was found, else create_record; ok is the answer of the store.
WriteRecord(w) ==
    /\ airtable # NoStore
    /\ airtable.upsert[w] # NoUpsert
    /\ airtable.upsert[w].stage = "write"
    /\ \E ok \in BOOLEAN :
         LET u == airtable.upsert[w] IN
         airtable' = [airtable EXCEPT
                         !.upsert[w] = NoUpsert,
                         !.records =
                             IF ~ok THEN @
                             ELSE IF u.existing_record # {}
                             THEN [i \in DOMAIN @ |->
                                     IF i \in u.existing_record
                                     THEN [@[i] EXCEPT !.written_by = w]
                                     ELSE @[i]]
                             ELSE Append(@, [Forum_Corr_ID |-> u.correlation_id,
                                             written_by |-> w])]
    /\ UNCHANGED <<processing_queue, webhooks, next_rowid, worker, response, received,
                   accepted, dequeues, updates, lastRun, lastRequest, call,
                   guard, stats, scan>>

\* The record store while the workers save their jobs: any correlation ids,
\* any answers of the store.
InitUpsert ==
    /\ processing_queue = <<>>
    /\ webhooks = {}
    /\ next_rowid = 1
    /\ worker = [w \in Workers |-> NoItem]
    /\ response = [request |-> 0, status_code |-> 0]
    /\ received = 0
    /\ accepted = {}
    /\ dequeues = [r \in ReqIds |-> 0]
    /\ updates = [r \in ReqIds |-> 0]
    /\ lastRun = <<>>
    /\ lastRequest = <<>>
    /\ call = NoCall
    /\ guard = NoGuard
    /\ stats = NoStats
    /\ scan = NoScan
    /\ airtable = [records |-> <<>>, started |-> 0,
                   upsert |-> [w \in Workers |-> NoUpsert]]

NextUpsert ==
    \E w \in Workers :
        \/ StartUpsert(w)
        \/ FindByCorrelationId(w)
        \/ WriteRecord(w)

SpecUpsert == InitUpsert /\ [][NextUpsert]_vars

\* The records of the store that carry the correlation id.
RecordsOf(correlation_id) ==
    {i \in DOMAIN airtable.records : airtable.records[i].Forum_Corr_ID = correlation_id}

\* C35: after any sequence of upserts, two of them running together on
\* different workers or a failed lookup included, the record store holds at
\* most one record for each correlation id.
C35_OneRecordPerCorrelationId ==
    airtable # NoStore => \A c \in CorrIds : Cardinality(RecordsOf(c)) <= 1

\* ----------------------------------------------------- the shared counters
\* The worker is between two jobs.
NoJob == <<>>

\* The counters process_webhook_background increments for a run, in order:
\* lines 276-284 when the statements before them did not raise, lines 305-306
\* in the handler.
Increments(run) ==
    IF run.fault # None THEN <<"total_failed", "total_processed">>
    ELSE CASE run.results.processing_status = "completed" ->
                <<"total_success", "total_processed">>
           [] run.results.processing_status = "url_detected" ->
                <<"total_url_detected", "total_success", "total_processed">>
           [] OTHER -> <<"total_failed", "total_processed">>

\* The status the state machine gave and the increments that follow it, for
\* every answer script of a job.
TalliesOf(hasUrl) ==
    {[status |-> run.results.processing_status, todo |-> Increments(run)] :
        run \in {process_webhook_background([correlationId |-> None, hasUrl |-> hasUrl,
                                             origin |-> "payload"],
                                            None, env) : env \in Envs}}
TalliesUrl == TalliesOf(TRUE)
TalliesNoUrl == TalliesOf(FALSE)

\* background_worker takes an item and process_webhook_background runs the
\* state machine for it.
WorkerTakesJob(w) ==
    /\ stats # NoStats
    /\ stats.job[w] = NoJob
    /\ stats.started < MaxJobs
    /\ \E tally \in TalliesUrl \cup TalliesNoUrl :
          stats' = [stats EXCEPT !.started = @ + 1,
                                 !.job[w] = [status |-> tally.status,
                                             todo |-> tally.todo,
                                             read |-> {}]]
    /\ UNCHANGED <<processing_queue, webhooks, next_rowid, worker, response, received,
                   accepted, dequeues, updates, lastRun, lastRequest, call,
                   guard, airtable, scan>>

\* stats[key] += 1, first half: the worker's thread reads the counter.  The
\* statement is not atomic and no lock protects the dictionary.
ReadCounter(w) ==
    /\ stats # NoStats
    /\ stats.job[w] # NoJob
    /\ stats.job[w].todo # <<>>
    /\ stats.job[w].read = {}
    /\ stats' = [stats EXCEPT !.job[w].read = {stats.counters[Head(stats.job[w].todo)]}]
    /\ UNCHANGED <<processing_queue, webhooks, next_rowid, worker, response, received,
                   accepted, dequeues, updates, lastRun, lastRequest, call,
                   guard, airtable, scan>>

\* stats[key] += 1, second half: the value read, plus one, is stored.
WriteCounter(w) ==
    /\ stats # NoStats
    /\ stats.job[w] # NoJob
    /\ stats.job[w].read # {}
    /\ stats' = [stats EXCEPT
                    !.counters[Head(stats.job[w].todo)] =
                        (CHOOSE v \in stats.job[w].read : TRUE) + 1,
                    !.job[w].todo = Tail(@),
                    !.job[w].read = {}]
    /\ UNCHANGED <<processing_queue, webhooks, next_rowid, worker, response, received,
                   accepted, dequeues, updates, lastRun, lastRequest, call,
                   guard, airtable, scan>>

\* process_webhook_background returns: the job is finished.
JobFinishes(w) ==
    /\ stats # NoStats
    /\ stats.job[w] # NoJob
    /\ stats.job[w].todo = <<>>
    /\ stats' = [stats EXCEPT !.finished = Append(@, stats.job[w].status),
                              !.job[w] = NoJob]
    /\ UNCHANGED <<processing_queue, webhooks, next_rowid, worker, response, received,
                   accepted, dequeues, updates, lastRun, lastRequest, call,
                   guard, airtable, scan>>

\* The counters of a server that has just started, and its workers.
InitStats ==
    /\ processing_queue = <<>>
    /\ webhooks = {}
    /\ next_rowid = 1
    /\ worker = [w \in Workers |-> NoItem]
    /\ response = [request |-> 0, status_code |-> 0]
    /\ received = 0
    /\ accepted = {}
    /\ dequeues = [r \in ReqIds |-> 0]
    /\ updates = [r \in ReqIds |-> 0]
    /\ lastRun = <<>>
    /\ lastRequest = <<>>
    /\ call = NoCall
    /\ guard = NoGuard
    /\ airtable = NoStore
    /\ scan = NoScan
    /\ stats = [counters |-> [total_processed |-> 0, total_success |-> 0,
                              total_failed |-> 0, total_url_detected |-> 0],
                job |-> [w \in Workers |-> NoJob],
                started |-> 0,
                finished |-> <<>>]

NextStats ==
    \E w \in Workers :
        \/ WorkerTakesJob(w)
        \/ ReadCounter(w)
        \/ WriteCounter(w)
        \/ JobFinishes(w)

SpecStats == InitStats /\ [][NextStats]_vars

\* Every job that was taken has finished.
AllFinished == stats # NoStats /\ \A w \in Workers : stats.job[w] = NoJob
UrlDetectedJobs == {i \in DOMAIN stats.finished : stats.finished[i] = "url_detected"}

\* The first half of C36: processed = success + failed = finished jobs.
ProcessedIsSuccessPlusFailed ==
    AllFinished =>
        /\ stats.counters.total_processed
              = stats.counters.total_success + stats.counters.total_failed
        /\ stats.counters.total_processed = Len(stats.finished)
\* The second half of C36.
UrlDetectedIsCounted ==
    AllFinished => stats.counters.total_url_detected = Cardinality(UrlDetectedJobs)

\* C36: whenever all jobs the workers took have finished, total_processed =
\* total_success + total_failed = number of finished jobs, and
\* total_url_detected is the number of finished jobs whose state-machine
\* status was url_detected.
C36_CountersAreConsistent ==
    ProcessedIsSuccessPlusFailed /\ UrlDetectedIsCounted

\* The id the state machine, the upsert (forum_processor.py:563) and the forum
\* post (forum_post_client.py:193) use is the one of the job's forum data; the
\* gateway's row and the worker's ledger update use the id of the queue item.
IdOfForumData == TheItem.forum_data.correlationId
IdOfItem == TheItem.correlation_id

\* C37 for a job whose payload came with the request.
PayloadIdThroughout ==
    (RunDone /\ TheItem.forum_data.origin = "payload")
        => /\ IdOfForumData = IdOfItem
           /\ TheRun.results.correlation_id = IdOfItem

\* C37: the correlation id under which the gateway recorded and enqueued the
\* job is the id the state machine, the upsert and the forum post use for it,
\* also when the forum data was fetched by the gateway.
C37_OneIdThroughout ==
    RunDone => /\ IdOfForumData = IdOfItem
               /\ TheRun.results.correlation_id = IdOfItem

\* The gateway step rejected its request because the queue was full.
RejectedAsFull == GatewayStep /\ response'.status_code = 503
\* The rows of jobs that were accepted before the step.
AcceptedRows == {row \in webhooks : row.status # "rejected"}

\* C38 for the rows of other correlation ids.
RejectionKeepsOtherRows ==
    [][RejectedAsFull
         => \A row \in AcceptedRows :
                row.correlation_id # lastRequest'[1].correlationId
                    => row \in webhooks']_vars

\* C38: a request rejected because the queue is full leaves the ledger row of
\* every job accepted before it unchanged, the row of an earlier job with the
\* same correlation id included.
C38_RejectionKeepsAcceptedRows ==
    [][RejectedAsFull => \A row \in AcceptedRows : row \in webhooks']_vars

\* The accepted requests whose ledger row has not had its terminal update,
\* and the workers that hold a job.
Unsettled == {r \in accepted : updates[r] = 0}
Busy == {w \in Workers : worker[w] # NoItem}

\* C39: the accepted jobs without their terminal ledger update are the jobs
\* in the queue and the jobs the workers hold, at most MAX_QUEUE_SIZE of the
\* first and one for each worker of the second, so never more than
\* MAX_QUEUE_SIZE + MAX_WORKERS; the bound of the queue counts only the jobs
\* that were not dequeued yet.
C39_UnsettledJobsAreBounded ==
    /\ Len(processing_queue) <= MAX_QUEUE_SIZE
    /\ Cardinality(Unsettled) = Len(processing_queue) + Cardinality(Busy)
    /\ Unsettled = {processing_queue[i].request : i \in DOMAIN processing_queue}
                       \cup {worker[w][1].request : w \in Busy}
    /\ Cardinality(Unsettled) <= MAX_QUEUE_SIZE + MAX_WORKERS

\* The queue is full again after a worker took a job: more accepted jobs wait
\* for their update than the queue can hold.
C39_Witness ==
    /\ Len(processing_queue) = MAX_QUEUE_SIZE
    /\ Busy # {}
    /\ Cardinality(Unsettled) > MAX_QUEUE_SIZE
    /\ response.status_code = 202

\* process_forum_post was called and has returned.
StateMachineReturned == RunDone /\ ~TheEnv.ctorFault

\* C40: whenever the state machine returns, its status is completed,
\* hil_exception, url_detected or error, never pending, and hil_flag is true
\* exactly when the status is hil_exception.
C40_StatusIsTerminalAndFlagMatches ==
    StateMachineReturned
        => /\ TheRun.results.processing_status \in TerminalStatuses
           /\ TheRun.results.processing_status # "pending"
           /\ TheRun.results.hil_flag <=> TheRun.results.processing_status = "hil_exception"

\* The responder's reply carried a flag: the status is hil_exception and the
\* flag is set, after the reply was formatted.
C40_Witness ==
    /\ StateMachineReturned
    /\ Replied(TheEnv)
    /\ TheEnv.flag = "exception_flag"
    /\ TheRun.results.hil_flag
    /\ TheRun.results.processing_status = "hil_exception"

====
